---- MODULE Spec2Model ----
(***************************************************************************)
(* Verification model of the assistant module of index-life-local:         *)
(*   - the lazy engine loader _get_llm (app/modules/assistant/routes.py),  *)
(*   - the context budgeter _trim_messages_to_fit (same file),             *)
(*   - the background jobs and their coordinator lock (background.py).     *)
(* Threads are Python threads; one action is one step between two points   *)
(* at which another thread can observe or change the shared globals.       *)
(***************************************************************************)
EXTENDS Integers, Sequences, FiniteSets, TLC

\* ------------------------------------------------------------------ bounds

\* Number of threads that call _get_llm in the loader specification.
NumCallers == 2
\* How many entries of _DEFAULT_GPU_LAYER_CANDIDATES the fake engine is tried on.
MaxLayerCands == 2
\* Largest number of *.gguf files in the model directory.
MaxFiles == 2

\* Characters per token of the model tokenizer.
CharsPerToken == 3
\* Largest number of history messages handed to the budgeter.
MaxHistory == 2
\* Number of background job threads in the jobs specification.
NumJobs == 2
\* Largest number of records in the store.
MaxEntries == 1

\* Largest record id of the memory store specification.
MaxRecords == 2
\* Number of calendar days a record can be written for.
MaxDates == 2
\* Largest number of record deletions in a run.
MaxDeletes == 1
\* Largest number of maintenance jobs run on the store.
MaxRuns == 2
\* Largest number of times a record is saved or imported.
MaxWrites == 2

\* Largest top_k of a retrieval call.
MaxTopK == 2

\* Largest number of lines of a note.
MaxLines == 5

\* Largest number of chunks in the engine's answer to one generation call.
MaxChunks == 2
\* Largest value of LLM_MAX_CONTINUATIONS.
MaxContSetting == 2

\* ------------------------------------------------------- program constants

\* routes.py:47-49
DEFAULT_GPU_CTX == 4096
DEFAULT_CPU_CTX == 8192
DEFAULT_GPU_LAYER_CANDIDATES == <<-1, 35, 28, 25, 20, 15>>
\* routes.py:112-113, defaults of LLM_GPU_CTX_STEP and LLM_MIN_GPU_CTX
DEFAULT_GPU_CTX_STEP == 1024
DEFAULT_MIN_GPU_CTX == 3072

\* routes.py:247 and 264: characters per token when the tokenizer raises
FallbackCharsPerToken == 4
\* routes.py:356: per-message overhead in tokens
MsgOverhead == 4
\* routes.py:346-349
SafetyMargin == 8
BudgetThreshold == 128
MinBudget == 32
\* routes.py:344, the least value _env_int accepts for LLM_N_CTX
MinNCtx == 256

\* routes.py:277, 281, 284, 588: the character floor of _needs_continuation,
\* the default of LLM_RESERVE_TOKENS, the least token count and the slack
\* below the reserve that count as cut off, the default of
\* LLM_MAX_CONTINUATIONS
ContinuationFloor == 40
DEFAULT_RESERVE_TOKENS == 512
ContinuationMinTokens == 64
ReserveSlack == 8
DEFAULT_MAX_CONTINUATIONS == 2

\* memory.py:300 and 307: new records since the last profile that force a
\* rebuild, and that trigger an incremental update
PROFILE_REBUILD_EVERY == 50
PROFILE_UPDATE_EVERY == 5

\* ---------------------------------------------------------------- helpers

Min2(a, b) == IF a <= b THEN a ELSE b
Max2(a, b) == IF a >= b THEN a ELSE b

IsPrefix(s, t) == Len(s) <= Len(t) /\ SubSeq(t, 1, Len(s)) = s

\* _gpu_ctx_candidates: base_ctx, then base_ctx - k*step while >= min_ctx
\* (only when LLM_GPU_FIRST is on).
RECURSIVE CtxDown(_, _, _)
CtxDown(ctx, step, minCtx) ==
    IF ctx >= minCtx THEN <<ctx>> \o CtxDown(ctx - step, step, minCtx) ELSE <<>>

gpu_ctx_candidates(baseCtx, gpuFirst, step, minCtx) ==
    IF ~gpuFirst THEN <<baseCtx>>
    ELSE <<baseCtx>> \o CtxDown(baseCtx - step, step, minCtx)

\* ------------------------------------------------------------------ state

VARIABLES
    cfg,          \* the environment of the run: flags, candidate lists, fake engine
    llm,          \* _llm: 0 is None, n > 0 is the n-th engine instance constructed
    llmNCtx,      \* _llm_n_ctx: 0 is None
    llmLock,      \* _llm_lock: 0 is free, t is held by thread t
    llmLoading,   \* _llm_loading
    constructed,  \* number of engine instances constructed so far
    pc,           \* per thread: position in its code
    li,           \* per thread: index into gpu_layer_candidates (for n_gpu ...)
    ci,           \* per thread: index into ctx_candidates (for ctx ...)
    attempts,     \* per thread: configurations handed to the constructor, in order
    ret,          \* per thread: outcome of its _get_llm call
    tIn,          \* budgeter: the arguments and environment of one call
    tOut,         \* budgeter: the list _trim_messages_to_fit returned
    tDone,        \* budgeter: whether the call has been made
    job,          \* per thread: what it runs and what it has done so far
    coordLock,    \* background._lock: 0 is free, t is held since thread t acquired it
    store,        \* the records in the store: how many, over how many months
    entries,      \* table mood_entries: id -> row (NoEntry: no such row)
    embRows,      \* table entry_embeddings: a set of rows
    sumRows,      \* table entry_summaries: a set of rows
    periods,      \* table period_summaries: month -> row (NoPeriod: no such row)
    profile,      \* table user_psych_profile: its first row (NoProfile: none)
    run,          \* the maintenance job in progress on the store, and its position
    nDeleted,     \* number of records deleted so far
    nRuns,        \* number of maintenance jobs started so far
    nWrites,      \* number of records saved or imported so far
    obs,          \* what the calls of update_embedding were given and did
    found,        \* what the last step, a search_relevant_entries call, was given and returned
    chat,         \* one request to /stream: its settings and the locals of generate()
    events,       \* the events the response stream of that request has emitted
    hw,           \* profile selection: os.environ and the detected hardware before the call
    envOut,       \* profile selection: os.environ after _auto_select_profile, and what it returned
    noteIn,       \* normalize_note: the note it is given, as lines
    noteOut,      \* normalize_note: the text it returned, as lines
    cIn,          \* continuation builder: the arguments and environment of one call
    cOut,         \* continuation builder: the list _build_continuation_messages returned
    pIn,          \* profile policy: the store update_profile finds, its flag and the engine's answer
    pOut          \* profile policy: the inference calls update_profile made and the profile it left

loaderVars == <<cfg, llm, llmNCtx, llmLock, llmLoading, constructed, pc, li, ci, attempts, ret>>
trimVars == <<tIn, tOut, tDone>>
jobVars == <<job, coordLock, store>>
memVars == <<entries, embRows, sumRows, periods, profile, run, nDeleted, nRuns, nWrites, obs, found>>
chatVars == <<chat, events>>
pureVars == <<hw, envOut, noteIn, noteOut, cIn, cOut, pIn, pOut>>
vars == <<loaderVars, trimVars, jobVars, memVars, chatVars, pureVars>>

Threads == DOMAIN pc

NoRet == [kind |-> "none", val |-> 0]

\* The configuration the CPU fallback is constructed with (line 496).
CpuCand(c) == <<0, c.cpuCtx>>

\* gpu_layer_candidates of lines 469-477.
LayerCands(c) ==
    IF c.layersEnv # <<>> THEN c.layersEnv
    ELSE SubSeq(DEFAULT_GPU_LAYER_CANDIDATES, 1, MaxLayerCands)

CtxCands(c) ==
    gpu_ctx_candidates(c.gpuCtx, c.gpuFirst, DEFAULT_GPU_CTX_STEP, DEFAULT_MIN_GPU_CTX)

\* The fake engine: Llama(**build_kwargs(ctx, n_gpu)) succeeds exactly on the
\* configurations in cfg.good and raises on every other one.
ConstructOk(c, cand) == cand \in c.good

\* ------------------------------------------------------- _get_llm, by step

\* A thread of the model: what it runs (kind), the seconds it has waited in
\* _lock.acquire (waited), its loop index (idx), and what it has done: run a
\* step that writes to the store (wrote), run a step that calls the embedding
\* model or the engine (engine), acquired _lock (held), called
\* _lock.release() (released), given up on the lock (skipped).
NewJob(k) ==
    [kind |-> k, waited |-> 0, idx |-> 1, wrote |-> FALSE, engine |-> FALSE,
     held |-> FALSE, released |-> 0, skipped |-> FALSE]

\* routes.py lines 621-626: an exception inside generate() is caught and
\* reported on the stream.
OnExceptionCloses == "done"
OnException == "st_error"

\* Where a thread continues when its _get_llm call has returned (ok) or
\* raised: routes.py line 547 (generate), background.py lines 70-74 (the exception skips the summary),
\* 122-126 (the exception ends the reindex), 166-169.
AfterGetLlm(t, ok) ==
    CASE job[t].kind = "process_entry" -> IF ok THEN "pe_summary" ELSE "pe_month"
      [] job[t].kind = "stream" -> IF ok THEN "st_build" ELSE OnException
      [] job[t].kind = "reindex_all" ->
            IF ~ok THEN "release"
            ELSE IF store.nEntries > 0 THEN "ri_summary" ELSE "ri_profile"
      [] job[t].kind = "warmup" -> "wu_embed"
      [] OTHER -> "done"

\* The positions from which _get_llm is called: a request thread (the warmup
\* route, line 646), generate() of stream (line 547) and the three
\* background jobs.
CallSites == {"idle", "st_getllm", "pe_getllm", "ri_getllm", "wu_getllm"}

\* A thread enters _get_llm.
Call(t) ==
    /\ pc[t] \in CallSites
    /\ pc' = [pc EXCEPT ![t] = "check"]
    /\ job' = [job EXCEPT ![t].idx = 1]
    /\ UNCHANGED <<pureVars, trimVars, memVars, chatVars, coordLock, store, cfg, llm, llmNCtx, llmLock, llmLoading, constructed, li, ci, attempts, ret>>

\* Line 403 `if _llm is None:`, which does not look at _llm_loading.
NeedsLoadUnlessLoading(handle, loading) == handle = 0 /\ ~loading
NeedsLoad(handle, loading) == handle = 0

\* Line 403 `if _llm is None:`; when it is not, line 501 returns the handle.
CheckLoaded(t) ==
    /\ pc[t] = "check"
    /\ IF NeedsLoad(llm, llmLoading)
       THEN /\ pc' = [pc EXCEPT ![t] = "lock"]
            /\ ret' = ret
       ELSE /\ pc' = [pc EXCEPT ![t] = AfterGetLlm(t, TRUE)]
            /\ ret' = [ret EXCEPT ![t] = [kind |-> "ok", val |-> llm]]
    /\ UNCHANGED <<pureVars, trimVars, memVars, chatVars, jobVars, cfg, llm, llmNCtx, llmLock, llmLoading, constructed, li, ci, attempts>>

\* Line 404 `with _llm_lock:` blocks until the lock is free.
LockAcquire(t) ==
    /\ pc[t] = "lock"
    /\ llmLock = 0
    /\ llmLock' = t
    /\ pc' = [pc EXCEPT ![t] = "locked"]
    /\ UNCHANGED <<pureVars, trimVars, memVars, chatVars, jobVars, cfg, llm, llmNCtx, llmLoading, constructed, li, ci, attempts, ret>>

\* The with statement of line 404 releases _llm_lock however the block is
\* left, also by the return of line 406.
LockKeptOnReturn(t, handle) == IF handle # 0 THEN t ELSE 0
LockAfterWith(t, handle) == 0

\* Lines 405-408, the body of the with block, and the release at its end:
\* the block ends after `_llm_loading = True`, so the thread goes on to
\* locate and load the model with the lock released.
LockedBody(t) ==
    /\ pc[t] = "locked"
    /\ llmLock' = LockAfterWith(t, llm)
    /\ IF llm # 0
       THEN /\ pc' = [pc EXCEPT ![t] = AfterGetLlm(t, TRUE)]
            /\ ret' = [ret EXCEPT ![t] = [kind |-> "ok", val |-> llm]]
            /\ llmLoading' = llmLoading
       ELSE /\ pc' = [pc EXCEPT ![t] = "glob"]
            /\ ret' = ret
            /\ llmLoading' = TRUE
    /\ UNCHANGED <<pureVars, trimVars, memVars, chatVars, jobVars, cfg, llm, llmNCtx, constructed, li, ci, attempts>>

\* Lines 419-426: glob the model directory; no file raises FileNotFoundError
\* (outside the try/finally of line 464, so _llm_loading stays as it is).
\* Lines 465-479: with GPU offload supported the loops start, else line 492.
LocateModel(t) ==
    /\ pc[t] = "glob"
    /\ IF cfg.nFiles = 0
       THEN /\ pc' = [pc EXCEPT ![t] = AfterGetLlm(t, FALSE)]
            /\ ret' = [ret EXCEPT ![t] = [kind |-> "FileNotFoundError", val |-> 0]]
       ELSE /\ pc' = [pc EXCEPT ![t] = IF cfg.gpuSupported THEN "gpu" ELSE "reqcheck"]
            /\ ret' = ret
    /\ li' = [li EXCEPT ![t] = 1]
    /\ ci' = [ci EXCEPT ![t] = 1]
    /\ attempts' = [attempts EXCEPT ![t] = <<>>]
    /\ UNCHANGED <<pureVars, trimVars, memVars, chatVars, jobVars, cfg, llm, llmNCtx, llmLock, llmLoading, constructed>>

\* The loop nest of lines 481-482: the candidate after (l, c), as
\* <<layer index, ctx index>>; <<0, 0>> when both loops are exhausted.
GpuNextLayersInner(c, l, k) ==
    IF l < Len(LayerCands(c)) THEN <<l + 1, k>>
    ELSE IF k < Len(CtxCands(c)) THEN <<1, k + 1>>
    ELSE <<0, 0>>
GpuNext(c, l, k) ==
    IF k < Len(CtxCands(c)) THEN <<l, k + 1>>
    ELSE IF l < Len(LayerCands(c)) THEN <<l + 1, 1>>
    ELSE <<0, 0>>

\* Lines 483-490: one constructor attempt of the GPU loops.
GpuAttempt(t) ==
    /\ pc[t] = "gpu"
    /\ LET cand == <<LayerCands(cfg)[li[t]], CtxCands(cfg)[ci[t]]>>
           nxt == GpuNext(cfg, li[t], ci[t])
       IN /\ attempts' = [attempts EXCEPT ![t] = Append(@, cand)]
          /\ IF ConstructOk(cfg, cand)
             THEN /\ llm' = constructed + 1
                  /\ constructed' = constructed + 1
                  /\ pc' = [pc EXCEPT ![t] = "gpusetctx"]
                  /\ UNCHANGED <<li, ci>>
             ELSE /\ llm' = 0
                  /\ constructed' = constructed
                  /\ IF nxt = <<0, 0>>
                     THEN /\ pc' = [pc EXCEPT ![t] = "reqcheck"]
                          /\ UNCHANGED <<li, ci>>
                     ELSE /\ pc' = pc
                          /\ li' = [li EXCEPT ![t] = nxt[1]]
                          /\ ci' = [ci EXCEPT ![t] = nxt[2]]
    /\ UNCHANGED <<pureVars, trimVars, memVars, chatVars, jobVars, cfg, llmNCtx, llmLock, llmLoading, ret>>

\* Line 485 `_llm_n_ctx = ctx`.
GpuSetCtx(t) ==
    /\ pc[t] = "gpusetctx"
    /\ llmNCtx' = CtxCands(cfg)[ci[t]]
    /\ pc' = [pc EXCEPT ![t] = "gpureturn"]
    /\ UNCHANGED <<pureVars, trimVars, memVars, chatVars, jobVars, cfg, llm, llmLock, llmLoading, constructed, li, ci, attempts, ret>>

\* Line 487 `return _llm` (the global as it is now) through the finally of
\* lines 499-500.
GpuReturn(t) ==
    /\ pc[t] = "gpureturn"
    /\ ret' = [ret EXCEPT ![t] = [kind |-> "ok", val |-> llm]]
    /\ llmLoading' = FALSE
    /\ pc' = [pc EXCEPT ![t] = AfterGetLlm(t, TRUE)]
    /\ UNCHANGED <<pureVars, trimVars, memVars, chatVars, jobVars, cfg, llm, llmNCtx, llmLock, constructed, li, ci, attempts>>

\* Lines 492-493: `if require_gpu and _llm is None: raise RuntimeError`,
\* through the finally.
RequireCheck(t) ==
    /\ pc[t] = "reqcheck"
    /\ IF cfg.requireGpu /\ llm = 0
       THEN /\ ret' = [ret EXCEPT ![t] = [kind |-> "RuntimeError", val |-> 0]]
            /\ llmLoading' = FALSE
            /\ pc' = [pc EXCEPT ![t] = AfterGetLlm(t, FALSE)]
       ELSE /\ pc' = [pc EXCEPT ![t] = "cpu"]
            /\ UNCHANGED <<ret, llmLoading>>
    /\ UNCHANGED <<pureVars, trimVars, memVars, chatVars, jobVars, cfg, llm, llmNCtx, llmLock, constructed, li, ci, attempts>>

\* Line 496: the CPU-only attempt; its exception leaves through the finally.
CpuAttempt(t) ==
    /\ pc[t] = "cpu"
    /\ attempts' = [attempts EXCEPT ![t] = Append(@, CpuCand(cfg))]
    /\ IF ConstructOk(cfg, CpuCand(cfg))
       THEN /\ llm' = constructed + 1
            /\ constructed' = constructed + 1
            /\ pc' = [pc EXCEPT ![t] = "cpusetctx"]
            /\ UNCHANGED <<ret, llmLoading>>
       ELSE /\ ret' = [ret EXCEPT ![t] = [kind |-> "LoadError", val |-> 0]]
            /\ llmLoading' = FALSE
            /\ pc' = [pc EXCEPT ![t] = AfterGetLlm(t, FALSE)]
            /\ UNCHANGED <<llm, constructed>>
    /\ UNCHANGED <<pureVars, trimVars, memVars, chatVars, jobVars, cfg, llmNCtx, llmLock, li, ci>>

\* Line 497 `_llm_n_ctx = cpu_ctx`.
CpuSetCtx(t) ==
    /\ pc[t] = "cpusetctx"
    /\ llmNCtx' = cfg.cpuCtx
    /\ pc' = [pc EXCEPT ![t] = "cpureturn"]
    /\ UNCHANGED <<pureVars, trimVars, memVars, chatVars, jobVars, cfg, llm, llmLock, llmLoading, constructed, li, ci, attempts, ret>>

\* Lines 499-501: the finally, then `return _llm`.
CpuReturn(t) ==
    /\ pc[t] = "cpureturn"
    /\ llmLoading' = FALSE
    /\ ret' = [ret EXCEPT ![t] = [kind |-> "ok", val |-> llm]]
    /\ pc' = [pc EXCEPT ![t] = AfterGetLlm(t, TRUE)]
    /\ UNCHANGED <<pureVars, trimVars, memVars, chatVars, jobVars, cfg, llm, llmNCtx, llmLock, constructed, li, ci, attempts>>

\* --------------------------------------------------- the context budgeter

\* A text is modelled by its length in characters. A message keeps the role,
\* the position `id` it had in the input list (0: the base system prompt built
\* by _base_system_prompt) and the length `full` of its uncut content.
Msg(role, id, len) == [role |-> role, id |-> id, len |-> len, full |-> len]

CeilDiv(a, b) == (a + b - 1) \div b

\* The engine's tokenizer: CharsPerToken characters per token, the last token
\* of a text possibly shorter, after `bos` leading marker tokens.
\* _count_tokens (lines 242-247): the token count, or max(1, len // 4) when
\* the tokenizer raises.
count_tokens(tok, len) ==
    IF tok.ok THEN tok.bos + CeilDiv(len, CharsPerToken)
    ELSE Max2(1, len \div FallbackCharsPerToken)

\* _truncate_to_tokens (lines 250-265): the length of the returned text.
truncate_to_tokens(tok, len, maxTokens) ==
    IF maxTokens <= 0 THEN 0
    ELSE IF tok.ok
         THEN IF count_tokens(tok, len) <= maxTokens THEN len
              ELSE Min2(len, (maxTokens - tok.bos) * CharsPerToken)
         ELSE Min2(len, Max2(0, maxTokens * FallbackCharsPerToken))

\* msg_tokens (lines 355-356).
msg_tokens(tok, m) == count_tokens(tok, m.len) + MsgOverhead

\* Lines 344-349: the budget.
trim_budget(nCtx, reserve) ==
    LET budget == nCtx - reserve - SafetyMargin
    IN IF budget < BudgetThreshold THEN Max2(MinBudget, nCtx - SafetyMargin) ELSE budget

Truncated(tok, m, target) == [m EXCEPT !.len = truncate_to_tokens(tok, m.len, target)]

\* Line 362: the system message that replaces the assembled context.
KeepAssembledSystem(baseLen, system) == system
BaseSystemMessage(baseLen, system) == Msg("system", 0, baseLen)

\* Line 366: the token target the system message is cut to.
SystemTarget(budget, lastTokens) == Max2(0, budget - lastTokens - MsgOverhead)

\* Line 378: the token target the newest message is cut to.
LastTargetNoOverhead(remaining) == Max2(0, remaining)
LastTarget(remaining) == Max2(0, remaining - MsgOverhead)

\* Lines 387-393: walk hist[1..i] backward from hist[i], appending each
\* message that fits to acc, and stop at the first that does not.
RECURSIVE HistoryWalkSkipping(_, _, _, _, _)
HistoryWalkSkipping(tok, hist, i, remaining, acc) ==
    IF i = 0 THEN acc
    ELSE LET tokens == msg_tokens(tok, hist[i])
         IN IF tokens <= remaining
            THEN HistoryWalkSkipping(tok, hist, i - 1, remaining - tokens, Append(acc, hist[i]))
            ELSE HistoryWalkSkipping(tok, hist, i - 1, remaining, acc)
RECURSIVE HistoryWalk(_, _, _, _, _)
HistoryWalk(tok, hist, i, remaining, acc) ==
    IF i = 0 THEN acc
    ELSE LET tokens == msg_tokens(tok, hist[i])
         IN IF tokens <= remaining
            THEN HistoryWalk(tok, hist, i - 1, remaining - tokens, Append(acc, hist[i]))
            ELSE acc

\* Line 394 `trimmed_tail.reverse()`.
NotReversed(s) == s
Reversed(s) == [k \in 1..Len(s) |-> s[Len(s) + 1 - k]]

\* _trim_messages_to_fit (lines 340-396).
trim_messages_to_fit(tok, nCtx, reserve, baseLen, messages) ==
    IF messages = <<>> THEN messages
    ELSE
    LET budget == trim_budget(nCtx, reserve)
        system0 == messages[1]
        tail == SubSeq(messages, 2, Len(messages))
        hasLast == tail # <<>>
        last0 == tail[Len(tail)]
        lastTokens0 == IF hasLast THEN msg_tokens(tok, last0) ELSE 0
        \* lines 361-363
        system1 == IF hasLast /\ msg_tokens(tok, system0) + lastTokens0 > budget
                   THEN BaseSystemMessage(baseLen, system0) ELSE system0
        \* lines 365-371
        system2 == IF hasLast /\ msg_tokens(tok, system1) + lastTokens0 > budget
                   THEN Truncated(tok, system1, SystemTarget(budget, lastTokens0))
                   ELSE system1
        remaining0 == budget - msg_tokens(tok, system2)
    IN IF ~hasLast THEN <<system2>>
       ELSE
       LET \* lines 377-383
           last1 == IF lastTokens0 > remaining0
                    THEN Truncated(tok, last0, LastTarget(remaining0)) ELSE last0
           remaining1 == remaining0 - msg_tokens(tok, last1)
           hist == SubSeq(tail, 1, Len(tail) - 1)
           trimmedTail == HistoryWalk(tok, hist, Len(hist), remaining1, <<last1>>)
       IN <<system2>> \o Reversed(trimmedTail)

\* The budgeter variables while no call is being examined.
NoTrimInput ==
    [msgs |-> <<>>, nCtx |-> 0, reserve |-> 0, baseLen |-> 0,
     tok |-> [ok |-> TRUE, bos |-> 0]]

TrimIdle ==
    /\ tIn = NoTrimInput
    /\ tOut = <<>>
    /\ tDone = FALSE

\* ------------------------------------------------ the memory store: state

\* A note is modelled by its text without leading and trailing whitespace
\* (core; 0 is the empty text) and by whether it has such whitespace (pad).
Notes == {[core |-> 0, pad |-> FALSE], [core |-> 1, pad |-> FALSE], [core |-> 1, pad |-> TRUE]}
Ratings == {5}
Dates == 1..MaxDates
\* Two days to the month.
MonthOf(d) == (d + 1) \div 2
Months == {MonthOf(d) : d \in Dates}

\* str.strip() (memory.py line 91, routes.py line 63).
strip(n) == [n EXCEPT !.pad = FALSE]

\* normalize_note (app/routes.py lines 25-63) ends in .strip().
normalize_note(n) == strip(n)

NoEntry == [date |-> 0, rating |-> 0, note |-> [core |-> 0, pad |-> FALSE]]
NoPeriod == [exists |-> FALSE, entry_count |-> 0, invalid |-> FALSE]
NoProfile == [exists |-> FALSE, version |-> 0, entries_analyzed |-> 0, content |-> "none"]
\* No search_relevant_entries call has just returned.
NoFound == [called |-> FALSE]
NoRun == [kind |-> "none", phase |-> "idle", recs |-> <<>>, idx |-> 0, months |-> <<>>, fresh |-> TRUE]

EntryIds == 1..MaxRecords
LiveIds == {e \in EntryIds : entries[e].date # 0}
LiveIn(m) == {e \in LiveIds : MonthOf(entries[e].date) = m}

MemIdle ==
    /\ entries = [e \in EntryIds |-> NoEntry]
    /\ embRows = {}
    /\ sumRows = {}
    /\ periods = [m \in Months |-> NoPeriod]
    /\ profile = NoProfile
    /\ run = NoRun
    /\ nDeleted = 0
    /\ nRuns = 0
    /\ nWrites = 0
    /\ obs = [seen |-> [e \in EntryIds |-> NoEntry], computed |-> FALSE, wrote |-> FALSE]
    /\ found = NoFound

\* ------------------------------------------------ the chat request: state

NoChat == [phase |-> "none"]

ChatIdle ==
    /\ chat = NoChat
    /\ events = <<>>

\* ------------------------------------------------ the pure calls: state

NoCall == [called |-> FALSE]

PureIdle ==
    /\ hw = NoCall
    /\ envOut = NoCall
    /\ noteIn = <<>>
    /\ noteOut = NoCall
    /\ cIn = NoCall
    /\ cOut = NoCall
    /\ pIn = NoCall
    /\ pOut = NoCall

\* ------------------------------------------------ the loader specification

\* The environments of a run. A candidate list without GPU support, or a
\* fake engine when no model file exists, is never read, so one value stands
\* for all of them.
GpuCandsOf(c) ==
    {<<LayerCands(c)[i], CtxCands(c)[j]>> :
        i \in 1..Len(LayerCands(c)), j \in 1..Len(CtxCands(c))}

EnvShapes ==
    {[gpuSupported |-> g, requireGpu |-> r, nFiles |-> n, layersEnv |-> l,
      gpuCtx |-> DEFAULT_GPU_CTX, gpuFirst |-> f, cpuCtx |-> DEFAULT_CPU_CTX] :
        g \in BOOLEAN, r \in BOOLEAN, n \in 0..MaxFiles,
        l \in {<<>>, <<20>>}, f \in BOOLEAN}

\* Fake engines: none succeeds, or exactly one configuration succeeds.
GoodSets(c) ==
    {{}} \cup {{x} : x \in GpuCandsOf(c) \cup {CpuCand(c)}}

Envs ==
    {[gpuSupported |-> s.gpuSupported, requireGpu |-> s.requireGpu,
      nFiles |-> s.nFiles, layersEnv |-> s.layersEnv, gpuCtx |-> s.gpuCtx,
      gpuFirst |-> s.gpuFirst, cpuCtx |-> s.cpuCtx, good |-> g] :
        s \in EnvShapes, g \in UNION {GoodSets(x) : x \in EnvShapes}}

EnvOk(c) ==
    /\ c.good \in GoodSets(c)
    /\ (c.nFiles = 0 =>
            c.good = {} /\ c.gpuSupported /\ ~c.requireGpu /\ c.layersEnv = <<>> /\ c.gpuFirst)
    /\ (~c.gpuSupported =>
            c.layersEnv = <<>> /\ c.gpuFirst /\ c.good \subseteq {CpuCand(c)})

InitLoader ==
    /\ llm = 0
    /\ llmNCtx = 0
    /\ llmLock = 0
    /\ llmLoading = FALSE
    /\ constructed = 0

Init ==
    /\ cfg \in {c \in Envs : EnvOk(c)}
    /\ InitLoader
    /\ pc = [t \in 1..NumCallers |-> "idle"]
    /\ li = [t \in 1..NumCallers |-> 1]
    /\ ci = [t \in 1..NumCallers |-> 1]
    /\ attempts = [t \in 1..NumCallers |-> <<>>]
    /\ ret = [t \in 1..NumCallers |-> NoRet]
    /\ TrimIdle
    /\ job = [t \in 1..NumCallers |-> NewJob("caller")]
    /\ coordLock = 0
    /\ store = [nEntries |-> 0, nMonths |-> 0]
    /\ MemIdle
    /\ ChatIdle
    /\ PureIdle

GetLlmNext ==
    \/ \E t \in Threads : CheckLoaded(t)
    \/ \E t \in Threads : LockAcquire(t)
    \/ \E t \in Threads : LockedBody(t)
    \/ \E t \in Threads : LocateModel(t)
    \/ \E t \in Threads : GpuAttempt(t)
    \/ \E t \in Threads : GpuSetCtx(t)
    \/ \E t \in Threads : GpuReturn(t)
    \/ \E t \in Threads : RequireCheck(t)
    \/ \E t \in Threads : CpuAttempt(t)
    \/ \E t \in Threads : CpuSetCtx(t)
    \/ \E t \in Threads : CpuReturn(t)

Next ==
    \/ \E t \in Threads : Call(t)
    \/ GetLlmNext

Spec == Init /\ [][Next]_vars

\* ------------------------------------- calls one after the other, retried

\* A call of _get_llm that starts when no other call is under way.
CallNext(t) ==
    /\ \A u \in Threads \ {t} : pc[u] \in {"idle", "done"}
    /\ Call(t)

\* Between two calls, after a load has failed, the environment changes: a
\* model file is put into the models directory (line 419 globs it at every
\* call) and the constructor, which failed on every configuration it was
\* given, now succeeds on one of them or still on none.
RepairEnv ==
    /\ \A t \in Threads : pc[t] \in {"idle", "done"}
    /\ \E t \in Threads : ret[t].kind \in {"FileNotFoundError", "RuntimeError", "LoadError"}
    /\ llm = 0
    /\ \E g \in GoodSets(cfg) :
            /\ cfg' = [cfg EXCEPT !.nFiles = Max2(1, @), !.good = g]
            /\ cfg' # cfg
    /\ UNCHANGED <<pureVars, trimVars, memVars, chatVars, jobVars, llm, llmNCtx, llmLock, llmLoading, constructed, pc, li, ci, attempts, ret>>

NextRetry ==
    \/ \E t \in Threads : CallNext(t)
    \/ GetLlmNext
    \/ RepairEnv

SpecRetry == Init /\ [][NextRetry]_vars

\* ---------------------------------------------- the budgeter specification

\* Text lengths the message lists are drawn from, chosen around the budgets
\* that the context sizes and reserves below produce (148 to 376 tokens).
SystemLens == {30, 300, 900}
NewestLens == {15, 300, 700, 720, 750, 1500}
HistoryLens == {15, 300, 600}
TrimCtxs == {MinNCtx, MinNCtx + BudgetThreshold}
TrimReserves == {0, 100, 512}
Tokenizers == {[ok |-> TRUE, bos |-> 0], [ok |-> TRUE, bos |-> 1], [ok |-> FALSE, bos |-> 0]}

HistoryLists == UNION {[1..n -> HistoryLens] : n \in 0..MaxHistory}

\* The list stream() builds (lines 553-564): the assembled system context,
\* the earlier turns in chronological order, the new user message.
MessageList(sysLen, hist, newestLen) ==
    <<Msg("system", 1, sysLen)>>
    \o [k \in 1..Len(hist) |->
            Msg(IF (Len(hist) - k) % 2 = 0 THEN "assistant" ELSE "user", k + 1, hist[k])]
    \o <<Msg("user", Len(hist) + 2, newestLen)>>

\* The assembled context is the base prompt with its four sections filled
\* in, so it is never shorter than the base prompt.
TrimInputs ==
    {[msgs |-> MessageList(sl, h, nl), nCtx |-> c, reserve |-> r, baseLen |-> bl, tok |-> k] :
        sl \in SystemLens, bl \in SystemLens, h \in HistoryLists, nl \in NewestLens,
        c \in TrimCtxs, r \in TrimReserves, k \in Tokenizers}

NoThreads ==
    /\ pc = <<>>
    /\ li = <<>>
    /\ ci = <<>>
    /\ attempts = <<>>
    /\ ret = <<>>
    /\ job = <<>>
    /\ coordLock = 0
    /\ store = [nEntries |-> 0, nMonths |-> 0]

DefaultEnv ==
    [gpuSupported |-> FALSE, requireGpu |-> FALSE, nFiles |-> 1, layersEnv |-> <<>>,
     gpuCtx |-> DEFAULT_GPU_CTX, gpuFirst |-> TRUE, cpuCtx |-> DEFAULT_CPU_CTX,
     good |-> {<<0, DEFAULT_CPU_CTX>>}]

InitTrim ==
    /\ cfg = DefaultEnv
    /\ InitLoader
    /\ NoThreads
    /\ tIn \in {i \in TrimInputs : i.baseLen <= i.msgs[1].len}
    /\ tOut = <<>>
    /\ tDone = FALSE
    /\ MemIdle
    /\ ChatIdle
    /\ PureIdle

\* One call of _trim_messages_to_fit on the input.
ApplyTrim ==
    /\ ~tDone
    /\ tOut' = trim_messages_to_fit(tIn.tok, tIn.nCtx, tIn.reserve, tIn.baseLen, tIn.msgs)
    /\ tDone' = TRUE
    /\ UNCHANGED <<pureVars, tIn, loaderVars, jobVars, memVars, chatVars>>

NextTrim == ApplyTrim

SpecTrim == InitTrim /\ [][NextTrim]_vars

\* -------------------------------------------------- the background jobs

\* background.py line 48 and 95: the seconds _lock.acquire waits.
LOCK_TIMEOUT == 1

LockJobs == {"process_entry", "reindex_all"}
AcquireSites == {"pe_acquire", "ri_acquire"}

\* _lock.acquire(timeout=1) succeeds when the lock is free.
CanAcquireAlways(lock) == TRUE
CanAcquire(lock) == lock = 0

\* Lines 48-50 and 95-97 when acquire returned False: log and return.
OnAcquireFailureWorks(k) == IF k = "process_entry" THEN "pe_lookup" ELSE "ri_query"
OnAcquireFailure(k) == "done"

\* Lines 55-56: `if entry is None: return` inside the try, so through the
\* finally of lines 89-90.
OnEntryMissingSkipsFinally == "done"
OnEntryMissing == "release"

\* _lock.acquire(timeout=1) returning True (lines 48, 95).
AcquireLock(t) ==
    /\ pc[t] \in AcquireSites
    /\ CanAcquire(coordLock)
    /\ coordLock' = t
    /\ job' = [job EXCEPT ![t].held = TRUE]
    /\ pc' = [pc EXCEPT ![t] = IF job[t].kind = "process_entry" THEN "pe_lookup" ELSE "ri_query"]
    /\ UNCHANGED <<pureVars, trimVars, memVars, chatVars, store, cfg, llm, llmNCtx, llmLock, llmLoading, constructed, li, ci, attempts, ret>>

\* A second passes while the thread waits for the lock, which is held.
WaitTick(t) ==
    /\ pc[t] \in AcquireSites
    /\ ~CanAcquire(coordLock)
    /\ job[t].waited < LOCK_TIMEOUT
    /\ job' = [job EXCEPT ![t].waited = @ + 1]
    /\ UNCHANGED <<pureVars, trimVars, memVars, chatVars, coordLock, store, loaderVars>>

\* _lock.acquire(timeout=1) returning False: the lock was held for the whole
\* timeout. Lines 49-50, 96-97.
AcquireTimeout(t) ==
    /\ pc[t] \in AcquireSites
    /\ ~CanAcquire(coordLock)
    /\ job[t].waited = LOCK_TIMEOUT
    /\ job' = [job EXCEPT ![t].skipped = TRUE]
    /\ pc' = [pc EXCEPT ![t] = OnAcquireFailure(job[t].kind)]
    /\ UNCHANGED <<pureVars, trimVars, memVars, chatVars, coordLock, store, cfg, llm, llmNCtx, llmLock, llmLoading, constructed, li, ci, attempts, ret>>

\* A step of a job: the thread moves to p with loop index i, having run code
\* that writes to the store (w) or calls the embedding model or the engine (e).
JobMoves(t, p, i, w, e) ==
    /\ pc' = [pc EXCEPT ![t] = p]
    /\ job' = [job EXCEPT ![t].idx = i, ![t].wrote = @ \/ w, ![t].engine = @ \/ e]
    /\ UNCHANGED <<pureVars, trimVars, memVars, chatVars, coordLock, store, cfg, llm, llmNCtx, llmLock, llmLoading, constructed, li, ci, attempts, ret>>

\* Lines 53-56: app context and db.session.get; the record is there, or it
\* is not (return), or the store raises (out through the finally).
PeLookup(t) ==
    /\ pc[t] = "pe_lookup"
    /\ \/ JobMoves(t, "pe_embed", 1, FALSE, FALSE)
       \/ JobMoves(t, OnEntryMissing, 1, FALSE, FALSE)
       \/ JobMoves(t, "release", 1, FALSE, FALSE)

\* Lines 100-109: app context and the query for all records.
RiQuery(t) ==
    /\ pc[t] = "ri_query"
    /\ \/ JobMoves(t, IF store.nEntries > 0 THEN "ri_embed" ELSE "ri_getllm", 1, FALSE, FALSE)
       \/ JobMoves(t, "release", 1, FALSE, FALSE)

\* Lines 62-66 and 112-119: update_embedding for one record. Whether it
\* returns or raises, the exception is caught and logged and the job goes on
\* at the same place.
Embedding(t) ==
    /\ pc[t] \in {"pe_embed", "ri_embed"}
    /\ LET p == IF pc[t] = "pe_embed" THEN "pe_getllm"
                ELSE IF job[t].idx < store.nEntries THEN "ri_embed" ELSE "ri_getllm"
           i == IF pc[t] = "ri_embed" /\ job[t].idx < store.nEntries THEN job[t].idx + 1 ELSE 1
       IN JobMoves(t, p, i, TRUE, TRUE)

\* The local `llm` of the job is bound (its _get_llm call returned) and is
\* an engine (not None).
LlmBound(t) == ret[t].kind = "ok"
LlmUsable(t) == LlmBound(t) /\ ret[t].val # 0

\* A step that is handed `llm` (generate_entry_summary, generate_month_summary,
\* update_profile): with `llm` unbound or None it raises before it reads or
\* writes anything. Whether it returns or raises, the exception is caught and
\* logged and the job goes on at the same place.
LlmStep(t, p, i) ==
    IF LlmUsable(t) THEN JobMoves(t, p, i, TRUE, TRUE)
    ELSE JobMoves(t, p, i, FALSE, FALSE)

\* Lines 71-74 and 128-135: generate_entry_summary for one record.
Summary(t) ==
    /\ pc[t] \in {"pe_summary", "ri_summary"}
    /\ IF pc[t] = "pe_summary" THEN LlmStep(t, "pe_month", 1)
       ELSE IF job[t].idx < store.nEntries THEN LlmStep(t, "ri_summary", job[t].idx + 1)
       ELSE LlmStep(t, "ri_month", 1)

\* Lines 77-81 and 138-146: generate_month_summary for one month.
Month(t) ==
    /\ pc[t] \in {"pe_month", "ri_month"}
    /\ IF pc[t] = "pe_month" THEN LlmStep(t, "pe_profile", 1)
       ELSE IF job[t].idx < store.nMonths THEN LlmStep(t, "ri_month", job[t].idx + 1)
       ELSE LlmStep(t, "ri_profile", 1)

\* Lines 84-88 and 149-153: update_profile.
Profile(t) ==
    /\ pc[t] \in {"pe_profile", "ri_profile"}
    /\ LlmStep(t, "release", 1)

\* Lines 89-90 and 156-157: the finally, _lock.release().
Release(t) ==
    /\ pc[t] = "release"
    /\ coordLock' = 0
    /\ job' = [job EXCEPT ![t].released = @ + 1]
    /\ pc' = [pc EXCEPT ![t] = "done"]
    /\ UNCHANGED <<pureVars, trimVars, memVars, chatVars, store, cfg, llm, llmNCtx, llmLock, llmLoading, constructed, li, ci, attempts, ret>>

\* Lines 161-165: _warmup enters the app context and reads LLM_WARMUP_ON_LOAD.
WuStart(t) ==
    /\ pc[t] = "wu_start"
    /\ \/ JobMoves(t, "wu_getllm", 1, FALSE, FALSE)
       \/ JobMoves(t, "done", 1, FALSE, FALSE)

\* Lines 170-174: _get_embed_model(), its exception caught.
WuEmbed(t) ==
    /\ pc[t] = "wu_embed"
    /\ JobMoves(t, "done", 1, FALSE, TRUE)

\* ------------------------------------------------- the jobs specification

JobKinds == <<"process_entry", "reindex_all", "warmup">>

StartPc(k) ==
    CASE k = "process_entry" -> "pe_acquire"
      [] k = "reindex_all" -> "ri_acquire"
      [] k = "warmup" -> "wu_start"
      [] OTHER -> "idle"

\* The threads are interchangeable, so their kinds are taken in the order
\* of JobKinds.
KindChoices ==
    {f \in [1..NumJobs -> 1..Len(JobKinds)] : \A a, b \in 1..NumJobs : a < b => f[a] <= f[b]}

\* One GPU candidate and the CPU fallback.
JobEnvs ==
    {[gpuSupported |-> TRUE, requireGpu |-> r, nFiles |-> n, layersEnv |-> <<20>>,
      gpuCtx |-> DEFAULT_GPU_CTX, gpuFirst |-> FALSE, cpuCtx |-> DEFAULT_CPU_CTX,
      good |-> g] :
        r \in BOOLEAN, n \in 0..1,
        g \in {{}, {<<20, DEFAULT_GPU_CTX>>}, {<<0, DEFAULT_CPU_CTX>>}}}

InitJobs ==
    /\ cfg \in {c \in JobEnvs : c.nFiles = 0 => c.good = {} /\ ~c.requireGpu}
    /\ InitLoader
    /\ TrimIdle
    /\ \E f \in KindChoices :
        /\ pc = [t \in 1..NumJobs |-> StartPc(JobKinds[f[t]])]
        /\ job = [t \in 1..NumJobs |-> NewJob(JobKinds[f[t]])]
    /\ li = [t \in 1..NumJobs |-> 1]
    /\ ci = [t \in 1..NumJobs |-> 1]
    /\ attempts = [t \in 1..NumJobs |-> <<>>]
    /\ ret = [t \in 1..NumJobs |-> NoRet]
    /\ coordLock = 0
    /\ store \in {[nEntries |-> n, nMonths |-> m] :
                    n \in 0..MaxEntries, m \in 0..MaxEntries}
    /\ store.nMonths <= store.nEntries
    /\ (store.nEntries > 0 => store.nMonths > 0)
    /\ MemIdle
    /\ ChatIdle
    /\ PureIdle

NextJobs ==
    \/ \E t \in Threads : AcquireLock(t)
    \/ \E t \in Threads : WaitTick(t)
    \/ \E t \in Threads : AcquireTimeout(t)
    \/ \E t \in Threads : PeLookup(t)
    \/ \E t \in Threads : RiQuery(t)
    \/ \E t \in Threads : Embedding(t)
    \/ \E t \in Threads : Summary(t)
    \/ \E t \in Threads : Month(t)
    \/ \E t \in Threads : Profile(t)
    \/ \E t \in Threads : Release(t)
    \/ \E t \in Threads : WuStart(t)
    \/ \E t \in Threads : WuEmbed(t)
    \/ \E t \in Threads : Call(t)
    \/ GetLlmNext

SpecJobs == InitJobs /\ [][NextJobs]_vars

\* ---------------------------------------------- the memory store: actions

\* An INTEGER PRIMARY KEY of SQLite: one more than the largest id in use.
NewId == IF LiveIds = {} THEN 1 ELSE (CHOOSE e \in LiveIds : \A f \in LiveIds : f <= e) + 1

\* The record of day d, as a set (MoodEntry.date is unique).
OnDay(d) == {e \in LiveIds : entries[e].date = d}

\* Lines 208-220 of edit_day and 86-101 of import_data.py: update the record
\* of the day, or create it.
Upsert(d, r, n) ==
    IF OnDay(d) # {}
    THEN entries' = [entries EXCEPT ![CHOOSE e \in OnDay(d) : TRUE] = [date |-> d, rating |-> r, note |-> n]]
    ELSE /\ NewId <= MaxRecords
         /\ entries' = [entries EXCEPT ![NewId] = [date |-> d, rating |-> r, note |-> n]]

\* edit_day, POST with a valid rating (app/routes.py lines 199-225).
SaveDay(d, r, n) ==
    /\ nWrites < MaxWrites
    /\ Upsert(d, r, normalize_note(n))
    /\ nWrites' = nWrites + 1
    /\ found' = NoFound
    /\ UNCHANGED <<pureVars, loaderVars, trimVars, jobVars, chatVars, embRows, sumRows, periods, profile, run, nDeleted, nRuns, obs>>

\* import_data.py lines 80-106: the note is stored as it is in the file.
ImportEntry(d, r, n) ==
    /\ nWrites < MaxWrites
    /\ Upsert(d, r, n)
    /\ nWrites' = nWrites + 1
    /\ found' = NoFound
    /\ UNCHANGED <<pureVars, loaderVars, trimVars, jobVars, chatVars, embRows, sumRows, periods, profile, run, nDeleted, nRuns, obs>>

\* db.session.delete(entry) for a record with dependent rows: the
\* relationships of models.py lines 86 and 111 declare no delete cascade and
\* entry_id is nullable, so the unit of work sets entry_id of the dependent
\* rows to NULL (0) and keeps the rows.
Detached(rows, e) == {IF x.entry_id = e THEN [x EXCEPT !.entry_id = 0] ELSE x : x \in rows}

\* delete_day (app/routes.py lines 161-183) for a day that has a record.
DeleteDay(d) ==
    /\ nDeleted < MaxDeletes
    /\ OnDay(d) # {}
    /\ LET e == CHOOSE x \in OnDay(d) : TRUE
       IN /\ entries' = [entries EXCEPT ![e] = NoEntry]
          /\ embRows' = Detached(embRows, e)
          /\ sumRows' = Detached(sumRows, e)
          /\ obs' = [obs EXCEPT !.seen[e] = NoEntry]
    /\ nDeleted' = nDeleted + 1
    /\ found' = NoFound
    /\ UNCHANGED <<pureVars, loaderVars, trimVars, jobVars, chatVars, periods, profile, run, nRuns, nWrites>>

\* The attributes of a MoodEntry object as a job loaded it.
Snap(e) == [id |-> e, date |-> entries[e].date, rating |-> entries[e].rating, note |-> entries[e].note]

\* MoodEntry.query.order_by(MoodEntry.date).all() (background.py line 107).
OrderedByDate ==
    LET n == Cardinality(LiveIds)
        ord == CHOOSE f \in [1..n -> LiveIds] :
                  \A a, b \in 1..n : a < b => entries[f[a]].date < entries[f[b]].date
    IN [k \in 1..n |-> Snap(ord[k])]

\* What the job reads from the i-th record it loaded. The session keeps the
\* attributes it loaded until its next commit expires them; after that an
\* attribute access reloads the row by id, and raises ObjectDeletedError
\* (ok = FALSE) when the row is gone.
View(i) ==
    LET snap == run.recs[i]
    IN IF run.fresh THEN [ok |-> TRUE, rec |-> snap]
       ELSE IF snap.id \in LiveIds THEN [ok |-> TRUE, rec |-> Snap(snap.id)]
       ELSE [ok |-> FALSE, rec |-> snap]

\* _process_entry lines 48-56 with the lock free and the record found.
StartProcess(e) ==
    /\ run = NoRun
    /\ nRuns < MaxRuns
    /\ nRuns' = nRuns + 1
    /\ e \in LiveIds
    /\ run' = [kind |-> "process_entry", phase |-> "embed", recs |-> <<Snap(e)>>, idx |-> 1,
               months |-> <<>>, fresh |-> TRUE]
    /\ found' = NoFound
    /\ UNCHANGED <<pureVars, loaderVars, trimVars, jobVars, chatVars, entries, embRows, sumRows, periods, profile, nDeleted, nWrites, obs>>

\* _reindex_all lines 95-109 with the lock free.
StartReindex ==
    /\ run = NoRun
    /\ nRuns < MaxRuns
    /\ nRuns' = nRuns + 1
    /\ run' = [kind |-> "reindex_all", phase |-> IF LiveIds = {} THEN "profile" ELSE "embed",
               recs |-> OrderedByDate, idx |-> 1, months |-> <<>>, fresh |-> TRUE]
    /\ found' = NoFound
    /\ UNCHANGED <<pureVars, loaderVars, trimVars, jobVars, chatVars, entries, embRows, sumRows, periods, profile, nDeleted, nWrites, obs>>

\* The position after the step at run.idx of a per-record phase: the next
\* record of the reindex loop, or the phase `after`.
Advance(after, committed) ==
    IF run.kind = "reindex_all" /\ run.idx < Len(run.recs)
    THEN [run EXCEPT !.idx = @ + 1, !.fresh = @ /\ ~committed]
    ELSE [run EXCEPT !.phase = after, !.idx = 1, !.fresh = @ /\ ~committed]

\* memory.py line 91: the text that is embedded.
EmbeddingText(rec) == <<rec.date, rec.rating, strip(rec.note).core>>

\* _text_hash (lines 60-61): MD5, taken as collision-free.
text_hash(text) == text

\* embed_text (lines 47-51) with a fake embedding model: the vector of a text
\* has two components, its date and its note.
embed_text(text) == <<text[1], text[3]>>

\* The id a new row of entry_embeddings gets (models.py line 104, an INTEGER
\* PRIMARY KEY): one more than the largest in the table.
NewEmbId ==
    IF embRows = {} THEN 1
    ELSE (CHOOSE x \in embRows : \A y \in embRows : y.id <= x.id).id + 1

\* Line 95 `if existing and existing.text_hash == h: return`.
EmbeddingAlwaysStale(existing, h) == FALSE
EmbeddingUnchanged(existing, h) == existing # {} /\ \A x \in existing : x.text_hash = h

\* update_embedding (lines 89-110) on the attributes rec, the embedding model
\* working.
update_embedding(rec) ==
    LET h == text_hash(EmbeddingText(rec))
        existing == {x \in embRows : x.entry_id = rec.id}
    IN IF EmbeddingUnchanged(existing, h)
       THEN /\ embRows' = embRows
            /\ obs' = [seen |-> [obs.seen EXCEPT ![rec.id] = [date |-> rec.date, rating |-> rec.rating, note |-> rec.note]],
                       computed |-> FALSE, wrote |-> FALSE]
            /\ run' = Advance("summary", FALSE)
       ELSE /\ embRows' = (embRows \ existing) \cup
                            {[id |-> IF existing # {} THEN (CHOOSE x \in existing : TRUE).id ELSE NewEmbId,
                              entry_id |-> rec.id, embedding |-> embed_text(EmbeddingText(rec)),
                              text_hash |-> h]}
            /\ obs' = [seen |-> [obs.seen EXCEPT ![rec.id] = [date |-> rec.date, rating |-> rec.rating, note |-> rec.note]],
                       computed |-> TRUE, wrote |-> TRUE]
            /\ run' = Advance("summary", TRUE)

\* background.py lines 62-66 and 112-119: update_embedding for one record,
\* its exception caught.
StepEmbed ==
    /\ run.phase = "embed"
    /\ IF View(run.idx).ok
       THEN update_embedding(View(run.idx).rec)
       ELSE /\ run' = Advance("summary", FALSE)
            /\ UNCHANGED <<embRows, obs>>
    /\ found' = NoFound
    /\ UNCHANGED <<pureVars, loaderVars, trimVars, jobVars, chatVars, entries, sumRows, periods, profile, nDeleted, nRuns, nWrites>>

\* What the engine's answer to the summary prompt leads to: a summary that
\* passes _summary_invalid, one that does not (shorter than 5 characters),
\* or an exception out of generate_entry_summary (line 175, NameError).
SummaryOutcomes == {"valid", "invalid", "raise"}

\* generate_entry_summary (lines 141-191) on the attributes rec.
generate_entry_summary(rec, outcome) ==
    LET existing == {x \in sumRows : x.entry_id = rec.id}
        out == IF strip(rec.note).core = 0 THEN "valid" ELSE outcome
    IN IF (existing # {} /\ \A x \in existing : ~x.invalid) \/ out = "raise"
       THEN /\ sumRows' = sumRows
            /\ run' = Advance(IF run.kind = "reindex_all" THEN "collect" ELSE "month", FALSE)
       ELSE /\ sumRows' = (sumRows \ existing) \cup {[entry_id |-> rec.id, invalid |-> out = "invalid"]}
            /\ run' = Advance(IF run.kind = "reindex_all" THEN "collect" ELSE "month", TRUE)

\* background.py lines 69-74 and 128-135.
StepSummary(outcome) ==
    /\ run.phase = "summary"
    /\ IF View(run.idx).ok
       THEN generate_entry_summary(View(run.idx).rec, outcome)
       ELSE /\ run' = Advance(IF run.kind = "reindex_all" THEN "collect" ELSE "month", FALSE)
            /\ sumRows' = sumRows
    /\ found' = NoFound
    /\ UNCHANGED <<pureVars, loaderVars, trimVars, jobVars, chatVars, entries, embRows, periods, profile, nDeleted, nRuns, nWrites, obs>>

\* sorted(months) of line 141, months being a set of month numbers.
RECURSIVE SortedSeq(_)
SortedSeq(S) ==
    IF S = {} THEN <<>>
    ELSE LET m == CHOOSE x \in S : \A y \in S : x <= y
         IN <<m>> \o SortedSeq(S \ {m})

\* _reindex_all lines 138-140: the months of the loaded records. The
\* attribute access is outside any try of the job, so its exception ends the
\* job through the finally.
StepCollect ==
    /\ run.phase = "collect"
    /\ IF \A i \in 1..Len(run.recs) : View(i).ok
       THEN LET ms == SortedSeq({MonthOf(View(i).rec.date) : i \in 1..Len(run.recs)})
            IN run' = [run EXCEPT !.phase = IF ms = <<>> THEN "profile" ELSE "month",
                                  !.idx = 1, !.months = ms]
       ELSE run' = NoRun
    /\ found' = NoFound
    /\ UNCHANGED <<pureVars, loaderVars, trimVars, jobVars, chatVars, entries, embRows, sumRows, periods, profile, nDeleted, nRuns, nWrites, obs>>

\* generate_month_summary (lines 211-282) for month m; invalid: the stored
\* text does not pass _summary_invalid.
generate_month_summary(m, invalid) ==
    LET n == Cardinality(LiveIn(m))
        existing == periods[m]
    IN IF n = 0 \/ (existing.exists /\ existing.entry_count = n /\ ~existing.invalid)
       THEN [periods |-> periods, committed |-> FALSE]
       ELSE [periods |-> [periods EXCEPT ![m] = [exists |-> TRUE, entry_count |-> n, invalid |-> invalid]],
             committed |-> TRUE]

\* The position after the month step at run.idx.
AdvanceMonth(committed) ==
    IF run.kind = "reindex_all" /\ run.idx < Len(run.months)
    THEN [run EXCEPT !.idx = @ + 1, !.fresh = @ /\ ~committed]
    ELSE [run EXCEPT !.phase = "profile", !.idx = 1, !.fresh = @ /\ ~committed]

\* background.py lines 77-81 (the month of the record, read inside the try)
\* and 141-145 (the months collected).
StepMonth(invalid) ==
    /\ run.phase = "month"
    /\ IF run.kind = "process_entry" /\ ~View(1).ok
       THEN /\ run' = AdvanceMonth(FALSE)
            /\ periods' = periods
       ELSE LET m == IF run.kind = "process_entry" THEN MonthOf(View(1).rec.date) ELSE run.months[run.idx]
                res == generate_month_summary(m, invalid)
            IN /\ periods' = res.periods
               /\ run' = AdvanceMonth(res.committed)
    /\ found' = NoFound
    /\ UNCHANGED <<pureVars, loaderVars, trimVars, jobVars, chatVars, entries, embRows, sumRows, profile, nDeleted, nRuns, nWrites, obs>>

\* What the engine's answer to the profile prompt is: a JSON document, text
\* with a JSON document between its first `{` and last `}`, text with no JSON
\* document in it, or an exception out of create_chat_completion.
ProfileResponses == {"json", "span", "garbage", "raise"}

\* _extract_json (lines 367-382): the parsed document, or the empty dict of
\* line 382 when neither parse succeeds.
extract_json(resp) == IF resp \in {"json", "span"} THEN "parsed" ELSE "empty"

\* Lines 296-301 and 304-308 of update_profile, for the profile row p and
\* total_entries records in the store.
needs_rebuild(p, total_entries, force_rebuild) ==
    \/ force_rebuild
    \/ ~p.exists
    \/ p.entries_analyzed = 0
    \/ total_entries - p.entries_analyzed >= PROFILE_REBUILD_EVERY
needs_update_strictly_more(p, total_entries, force_rebuild) ==
    /\ p.exists
    /\ ~needs_rebuild(p, total_entries, force_rebuild)
    /\ total_entries - p.entries_analyzed > PROFILE_UPDATE_EVERY
needs_update(p, total_entries, force_rebuild) ==
    /\ p.exists
    /\ ~needs_rebuild(p, total_entries, force_rebuild)
    /\ total_entries - p.entries_analyzed >= PROFILE_UPDATE_EVERY

\* Lines 293-321: whether update_profile gets as far as the try block of
\* line 335, where it makes its inference call (line 337); has_summaries is
\* whether the join of lines 314-317 returns a row.
profile_inference_calls(p, total_entries, has_summaries, force_rebuild) ==
    IF total_entries = 0 THEN 0
    ELSE IF /\ ~needs_rebuild(p, total_entries, force_rebuild)
            /\ ~needs_update(p, total_entries, force_rebuild) THEN 0
    ELSE IF ~has_summaries THEN 0
    ELSE 1

\* Lines 335-363: the profile row after the call.
profile_after(p, total_entries, has_summaries, force_rebuild, resp) ==
    IF profile_inference_calls(p, total_entries, has_summaries, force_rebuild) = 0 THEN p
    ELSE IF resp = "raise" THEN p
    ELSE [exists |-> TRUE,
          version |-> IF p.exists THEN p.version + 1 ELSE 1,
          entries_analyzed |-> total_entries,
          content |-> extract_json(resp)]

\* update_profile (lines 287-364) on the store: the profile row after the call.
update_profile(force_rebuild, resp) ==
    profile_after(profile, Cardinality(LiveIds),
                  {x \in sumRows : x.entry_id \in LiveIds} # {}, force_rebuild, resp)

\* background.py lines 84-90 and 149-157: update_profile, its exception
\* caught, then the finally.
StepProfile(resp) ==
    /\ run.phase = "profile"
    /\ profile' = update_profile(run.kind = "reindex_all", resp)
    /\ run' = NoRun
    /\ found' = NoFound
    /\ UNCHANGED <<pureVars, loaderVars, trimVars, jobVars, chatVars, entries, embRows, sumRows, periods, nDeleted, nRuns, nWrites, obs>>

\* --------------------------------------------- the memory store specification

\* ------------------------------------------------ semantic retrieval

\* embed_query (lines 54-57): the vector of the query text.
QueryVecs == {<<0, 1>>, <<1, 0>>, <<1, 1>>}
embed_query(q) == q

\* np.dot (line 125) on two-component vectors.
dot(a, b) == a[1] * b[1] + a[2] * b[2]

\* EntryEmbedding.query.all() (line 117): the rows in storage order.
all_embs ==
    LET n == Cardinality(embRows)
    IN CHOOSE f \in [1..n -> embRows] : \A a, b \in 1..n : a < b => f[a].id < f[b].id

\* np.argsort(scores) (line 130), kind 'quicksort': an index order in which
\* the scores ascend. The sort is not stable, so the order of equal scores
\* is whichever the build produces.
argsort(scores) ==
    {p \in [1..Len(scores) -> 1..Len(scores)] :
        /\ \A a, b \in 1..Len(scores) : a < b => p[a] # p[b]
        /\ \A a, b \in 1..Len(scores) : a < b => scores[p[a]] <= scores[p[b]]}

\* [::-1][:top_k] (line 130).
TopIndices(p, top_k) ==
    LET n == Len(p)
    IN [i \in 1..Min2(top_k, n) |-> p[n + 1 - i]]

\* Lines 132-136: the records of the chosen rows that exist, in the order of
\* the rows; a row whose entry_id is NULL or names no record is passed over.
ExistingInOrder(ids, i) ==
    [k \in 1..Cardinality({j \in 1..i : ids[j] \in LiveIds}) |->
        ids[CHOOSE j \in 1..i :
                /\ ids[j] \in LiveIds
                /\ Cardinality({m \in 1..j : ids[m] \in LiveIds}) = k]]

\* search_relevant_entries (lines 113-136) with the argsort result p.
search_relevant_entries(q, top_k, p) ==
    LET top_indices == TopIndices(p, top_k)
        result_ids == [i \in 1..Len(top_indices) |-> all_embs[top_indices[i]].entry_id]
    IN ExistingInOrder(result_ids, Len(result_ids))

Scores(q) == [i \in 1..Cardinality(embRows) |-> dot(embed_query(q), all_embs[i].embedding)]

\* A call of search_relevant_entries, as build_context makes it (line 417).
Search(q, top_k) ==
    /\ \E p \in argsort(Scores(q)) :
          found' = [called |-> TRUE, query |-> q, top_k |-> top_k,
                    result |-> IF embRows = {} THEN <<>> ELSE search_relevant_entries(q, top_k, p)]
    /\ UNCHANGED <<pureVars, loaderVars, trimVars, jobVars, chatVars, entries, embRows, sumRows, periods, profile, run, nDeleted, nRuns, nWrites, obs>>

InitMem ==
    /\ cfg = DefaultEnv
    /\ InitLoader
    /\ NoThreads
    /\ TrimIdle
    /\ MemIdle
    /\ ChatIdle
    /\ PureIdle

NextMem ==
    \/ \E d \in Dates, r \in Ratings, n \in Notes : SaveDay(d, r, n)
    \/ \E d \in Dates, r \in Ratings, n \in Notes : ImportEntry(d, r, n)
    \/ \E d \in Dates : DeleteDay(d)
    \/ \E e \in EntryIds : StartProcess(e)
    \/ StartReindex
    \/ StepEmbed
    \/ \E o \in SummaryOutcomes : StepSummary(o)
    \/ StepCollect
    \/ \E i \in BOOLEAN : StepMonth(i)
    \/ \E r \in ProfileResponses : StepProfile(r)

SpecMem == InitMem /\ [][NextMem]_vars

\* The store with the retrieval calls of the chat; the engine answers every
\* maintenance prompt well.
NextSearch ==
    \/ \E d \in Dates, r \in Ratings, n \in Notes : SaveDay(d, r, n)
    \/ \E d \in Dates, r \in Ratings, n \in Notes : ImportEntry(d, r, n)
    \/ \E d \in Dates : DeleteDay(d)
    \/ \E e \in EntryIds : StartProcess(e)
    \/ StartReindex
    \/ StepEmbed
    \/ StepSummary("valid")
    \/ StepCollect
    \/ StepMonth(FALSE)
    \/ StepProfile("json")
    \/ \E q \in QueryVecs, k \in 1..MaxTopK : Search(q, k)

SpecSearch == InitMem /\ [][NextSearch]_vars

\* ------------------------------------------------ the chat request: actions

\* A response text is modelled by its length in characters (len), the kind
\* of its last character that is not whitespace (last: "term" for one of the
\* terminal characters of line 272, "other", "none" when there is none) and
\* whether it ends in whitespace (ws).
EmptyText == [len |-> 0, last |-> "none", ws |-> FALSE]

\* full_response += token (lines 584, 609).
Concat(text, d) ==
    IF d.len = 0 THEN text
    ELSE [len |-> text.len + d.len,
          last |-> IF d.last = "none" THEN text.last ELSE d.last,
          ws |-> d.ws]

\* str.rstrip() (line 269).
NoStrip(text) == text
rstrip(text) == [text EXCEPT !.ws = FALSE]

\* _ends_with_terminal_punct (lines 268-273): the last character of the
\* stripped text is a terminal character, or the stripped text is empty.
ends_with_terminal_punct(text) ==
    LET stripped == rstrip(text)
    IN IF stripped.last = "none" THEN TRUE
       ELSE ~stripped.ws /\ stripped.last = "term"

\* _needs_continuation (lines 276-286).
needs_continuation(tok, reserve, text) ==
    IF text.len = 0 \/ text.len < ContinuationFloor THEN FALSE
    ELSE IF ends_with_terminal_punct(text) THEN FALSE
    ELSE IF reserve > 0 /\ count_tokens(tok, text.len) < Max2(ContinuationMinTokens, reserve - ReserveSlack)
         THEN FALSE
    ELSE TRUE

\* stream() and generate() (lines 519-635) never reference background._lock.
StreamWaitsOnCoordinator(lock) == lock # 0
StreamWaitsOn(lock) == FALSE

\* Lines 611-612: `if not appended: break`, else the while condition again.
AlwaysLoopAgain(appended) == "st_loop"
AfterContinuation(appended) == IF appended THEN "st_loop" ELSE "st_save"

\* A user message is modelled by its words after line 522 has stripped it:
\* "kw" is a crisis keyword as CRISIS_KEYWORDS lists it, "KW" the same word
\* in capitals, "w" any other word; <<>> is the empty message.
CRISIS_KEYWORDS == {"kw"}
\* CRISIS_RESPONSE, the fixed answer.
CRISIS_RESPONSE == [len |-> 300, last |-> "term", ws |-> FALSE]

\* Line 506 `text.lower()`, word by word.
text_unchanged(w) == w
text_lower(w) == IF w = "KW" THEN "kw" ELSE w

\* _check_crisis (lines 504-507).
check_crisis(text) == \E i \in 1..Len(text) : text_lower(text[i]) \in CRISIS_KEYWORDS

\* Lines 524 and 532: what stream() does with the message.
MessageClass(text) ==
    IF text = <<>> THEN "empty"
    ELSE IF check_crisis(text) THEN "crisis"
    ELSE "normal"

\* A row added to chat_messages, and an entry of the request's log: a call
\* of assemble_context ("context"), a call of create_chat_completion
\* ("call"), a token event ("token"), a continuation event
\* with its count ("marker").
UserTurn(text) == [role |-> "user", words |-> text, content |-> EmptyText]
AssistantTurn(content) == [role |-> "assistant", words |-> <<>>, content |-> content]
LogEntry(kind, n) == [kind |-> kind, n |-> n]

\* Line 592: the count the continuation event carries, cont_count after the
\* increment of line 591.
CountBeforeIncrement(cont_count) == cont_count
MarkerCount(cont_count) == cont_count + 1

\* Line 616: the content of the assistant turn.
FirstGenerationOnly(full, first) == first
SavedContent(full, first) == full

\* The locals of generate() at its start, the rows the request has added to
\* chat_messages (turns), the texts of the token events it has sent, one
\* after the other (sent), and its log.
NewChat(conf, text) ==
    [conf |-> conf, msg |-> MessageClass(text), text |-> text,
     full |-> EmptyText, first |-> EmptyText, cont_count |-> 0,
     appended |-> FALSE, chunks |-> 0, emptyCont |-> FALSE, failed |-> FALSE,
     turns |-> <<>>, sent |-> EmptyText, log |-> <<>>]

loaderRest == <<cfg, llm, llmNCtx, llmLock, llmLoading, constructed, li, ci, attempts, ret>>

\* A step of the request thread t to position p.
StreamMoves(t, p) ==
    /\ pc' = [pc EXCEPT ![t] = p]
    /\ UNCHANGED <<pureVars, loaderRest, trimVars, jobVars, memVars>>

\* Lines 522-543: an empty message is answered by the sentinel alone; a
\* message with a crisis keyword by the fixed answer.
StreamRequest(t) ==
    /\ pc[t] = "st_request"
    /\ ~StreamWaitsOn(coordLock)
    /\ CASE chat.msg = "empty" ->
                /\ events' = <<"done">>
                /\ chat' = chat
                /\ StreamMoves(t, "done")
         [] chat.msg = "crisis" ->
                /\ events' = <<"token", "done">>
                /\ chat' = [chat EXCEPT !.turns = <<UserTurn(chat.text), AssistantTurn(CRISIS_RESPONSE)>>,
                                        !.sent = CRISIS_RESPONSE,
                                        !.log = <<LogEntry("token", 0)>>]
                /\ StreamMoves(t, "done")
         [] OTHER ->
                /\ events' = events
                /\ chat' = [chat EXCEPT !.turns = <<UserTurn(chat.text)>>]
                /\ StreamMoves(t, "st_getllm")

\* Lines 549-577: the context, the message list, the budgeter and the call
\* of create_chat_completion, which returns the stream or raises.
StreamBuild(t) ==
    /\ pc[t] = "st_build"
    /\ \/ /\ chat' = [chat EXCEPT !.chunks = 0,
                                  !.log = @ \o <<LogEntry("context", 0),
                                                 LogEntry("call", 0)>>]
          /\ StreamMoves(t, "st_gen")
       \/ /\ \E reached \in 1..2 :
                chat' = [chat EXCEPT !.failed = TRUE,
                                     !.log = @ \o SubSeq(<<LogEntry("context", 0),
                                                           LogEntry("call", 0)>>, 1, reached)]
          /\ StreamMoves(t, OnException)
    /\ events' = events

\* Lines 580-585 and 604-610: one chunk of the engine's answer; its content,
\* if not empty, is appended and sent.
StreamChunk(t, d) ==
    /\ pc[t] \in {"st_gen", "st_cont"}
    /\ chat.chunks < MaxChunks
    /\ chat' = [chat EXCEPT !.chunks = @ + 1, !.full = Concat(@, d),
                            !.appended = @ \/ (pc[t] = "st_cont" /\ d.len > 0),
                            !.sent = IF d.len > 0 THEN Concat(@, d) ELSE @,
                            !.log = IF d.len > 0 THEN Append(@, LogEntry("token", 0)) ELSE @]
    /\ events' = IF d.len > 0 THEN Append(events, "token") ELSE events
    /\ StreamMoves(t, pc[t])

\* The engine raises while the answer is streamed.
StreamRaise(t) ==
    /\ pc[t] \in {"st_gen", "st_cont"}
    /\ chat' = [chat EXCEPT !.failed = TRUE]
    /\ events' = events
    /\ StreamMoves(t, OnException)

\* The engine's answer ends: after the first generation the while condition
\* of line 590, after a continuation lines 611-612.
StreamEnd(t) ==
    /\ pc[t] \in {"st_gen", "st_cont"}
    /\ IF pc[t] = "st_gen"
       THEN /\ chat' = [chat EXCEPT !.first = chat.full]
            /\ StreamMoves(t, "st_loop")
       ELSE /\ chat' = [chat EXCEPT !.emptyCont = ~chat.appended]
            /\ StreamMoves(t, AfterContinuation(chat.appended))
    /\ events' = events

\* Line 590, the while condition, and lines 591-602 when it holds: the
\* continuation event and the next call of create_chat_completion, which
\* returns the stream or raises.
StreamLoop(t) ==
    /\ pc[t] = "st_loop"
    /\ IF /\ chat.conf.auto_continue
          /\ chat.cont_count < chat.conf.max_cont
          /\ needs_continuation(chat.conf.tok, chat.conf.reserve, chat.full)
       THEN /\ events' = Append(events, "continuation")
            /\ \/ /\ chat' = [chat EXCEPT !.cont_count = @ + 1, !.appended = FALSE, !.chunks = 0,
                                          !.log = @ \o <<LogEntry("marker", MarkerCount(chat.cont_count)),
                                                         LogEntry("call", 0)>>]
                  /\ StreamMoves(t, "st_cont")
               \/ /\ chat' = [chat EXCEPT !.cont_count = @ + 1, !.failed = TRUE,
                                          !.log = @ \o <<LogEntry("marker", MarkerCount(chat.cont_count)),
                                                         LogEntry("call", 0)>>]
                  /\ StreamMoves(t, OnException)
       ELSE /\ events' = events
            /\ chat' = chat
            /\ StreamMoves(t, "st_save")

\* Lines 614-619: the answer is saved and the sentinel sent.
StreamSave(t) ==
    /\ pc[t] = "st_save"
    /\ events' = Append(events, "done")
    /\ chat' = IF chat.full.len > 0
               THEN [chat EXCEPT !.turns = Append(@, AssistantTurn(SavedContent(chat.full, chat.first)))]
               ELSE chat
    /\ StreamMoves(t, "done")

\* Lines 622 and 625: the error event.
StreamError(t) ==
    /\ pc[t] = "st_error"
    /\ events' = Append(events, "error")
    /\ chat' = chat
    /\ StreamMoves(t, "st_error_done")

\* Lines 623 and 626: the sentinel after the error event.
StreamErrorDone(t) ==
    /\ pc[t] = "st_error_done"
    /\ events' = Append(events, "done")
    /\ chat' = chat
    /\ StreamMoves(t, "done")

\* ------------------------------------------------ the chat specification

\* The chunks of an answer: an empty one, a short one, and long ones that
\* bring the text past every token threshold of _needs_continuation.
Deltas ==
    {[len |-> 0, last |-> "none", ws |-> FALSE],
     [len |-> 30, last |-> "other", ws |-> FALSE],
     [len |-> 30, last |-> "term", ws |-> FALSE],
     [len |-> 2100, last |-> "other", ws |-> FALSE],
     [len |-> 2100, last |-> "term", ws |-> TRUE]}

\* The settings generate() reads: LLM_AUTO_CONTINUE, LLM_MAX_CONTINUATIONS,
\* LLM_RESERVE_TOKENS, and the engine's tokenizer.
ChatConfs ==
    {[auto_continue |-> a, max_cont |-> m, reserve |-> r, tok |-> k] :
        a \in BOOLEAN, m \in 0..MaxContSetting, r \in {0, DEFAULT_RESERVE_TOKENS},
        k \in {[ok |-> TRUE, bos |-> 0], [ok |-> FALSE, bos |-> 0]}}

\* Lines 587-588 and 281 with the variables unset.
DefaultConf(c) ==
    /\ c.auto_continue = FALSE
    /\ c.max_cont = DEFAULT_MAX_CONTINUATIONS
    /\ c.reserve = DEFAULT_RESERVE_TOKENS

\* The messages of the requests.
Messages == {<<>>, <<"w">>, <<"kw">>, <<"KW">>, <<"w", "KW">>, <<"kw", "w">>}

\* The threads that serve a request to /stream.
StreamThreads == {t \in Threads : job[t].kind = "stream"}

InitChat ==
    /\ cfg \in {c \in JobEnvs : c.nFiles = 0 => c.good = {} /\ ~c.requireGpu}
    /\ InitLoader
    /\ TrimIdle
    /\ MemIdle
    /\ pc = <<"st_request">>
    /\ job = <<NewJob("stream")>>
    /\ li = <<1>>
    /\ ci = <<1>>
    /\ attempts = << <<>> >>
    /\ ret = <<NoRet>>
    /\ coordLock = 0
    /\ store = [nEntries |-> 0, nMonths |-> 0]
    /\ chat \in {NewChat(c, m) : c \in ChatConfs, m \in Messages}
    /\ events = <<>>
    /\ PureIdle

StreamNext ==
    \/ \E t \in StreamThreads : StreamRequest(t)
    \/ \E t \in StreamThreads : StreamBuild(t)
    \/ \E t \in StreamThreads, d \in Deltas : StreamChunk(t, d)
    \/ \E t \in StreamThreads : StreamRaise(t)
    \/ \E t \in StreamThreads : StreamEnd(t)
    \/ \E t \in StreamThreads : StreamLoop(t)
    \/ \E t \in StreamThreads : StreamSave(t)
    \/ \E t \in StreamThreads : StreamError(t)
    \/ \E t \in StreamThreads : StreamErrorDone(t)

NextChat ==
    \/ StreamNext
    \/ \E t \in Threads : Call(t)
    \/ GetLlmNext

SpecChat == InitChat /\ [][NextChat]_vars

\* The request thread keeps running, and every answer of the engine ends.
SpecChatFair == SpecChat /\ WF_vars(NextChat)

\* --------------------------- a chat request beside a maintenance job

\* The engine is Ready: loaded once, on the CPU configuration.
InitReady ==
    /\ cfg = DefaultEnv
    /\ llm = 1
    /\ llmNCtx = DEFAULT_CPU_CTX
    /\ llmLock = 0
    /\ llmLoading = FALSE
    /\ constructed = 1

InitBusy ==
    /\ InitReady
    /\ TrimIdle
    /\ MemIdle
    /\ \E k \in LockJobs :
        /\ pc = <<"st_request", StartPc(k)>>
        /\ job = <<NewJob("stream"), NewJob(k)>>
    /\ li = <<1, 1>>
    /\ ci = <<1, 1>>
    /\ attempts = << <<>>, <<>> >>
    /\ ret = <<NoRet, NoRet>>
    /\ coordLock = 0
    /\ store \in {[nEntries |-> n, nMonths |-> n] : n \in 0..MaxEntries}
    /\ chat \in {NewChat(c, <<"w">>) :
                    c \in {x \in ChatConfs : x.reserve = 0 /\ x.tok.ok /\ x.max_cont <= 1}}
    /\ events = <<>>
    /\ PureIdle

\* The steps of the request thread, with the engine Ready.
StreamStep ==
    \/ StreamNext
    \/ \E t \in StreamThreads : Call(t)
    \/ \E t \in StreamThreads : CheckLoaded(t)

\* The steps of the maintenance job, with the engine Ready.
JobStep ==
    \/ \E t \in Threads \ StreamThreads : AcquireLock(t)
    \/ \E t \in Threads \ StreamThreads : PeLookup(t)
    \/ \E t \in Threads \ StreamThreads : RiQuery(t)
    \/ \E t \in Threads \ StreamThreads : Embedding(t)
    \/ \E t \in Threads \ StreamThreads : Call(t)
    \/ \E t \in Threads \ StreamThreads : CheckLoaded(t)
    \/ \E t \in Threads \ StreamThreads : Summary(t)
    \/ \E t \in Threads \ StreamThreads : Month(t)
    \/ \E t \in Threads \ StreamThreads : Profile(t)
    \/ \E t \in Threads \ StreamThreads : Release(t)

NextBusy ==
    \/ StreamStep
    \/ JobStep

\* The request thread keeps running; the job may stop anywhere, for ever.
SpecBusy == InitBusy /\ [][NextBusy]_vars /\ WF_vars(StreamStep)

\* ------------------------- a chat request beside two background jobs

\* The engine is Unloaded; a request to /stream and the background jobs, of
\* any kinds, start together. The request makes no continuation and each
\* chunk of the engine's answer is the same short text: what the request
\* streams has no part in the locks.
InitLocks ==
    /\ cfg \in {c \in JobEnvs : c.nFiles = 0 => c.good = {} /\ ~c.requireGpu}
    /\ InitLoader
    /\ TrimIdle
    /\ MemIdle
    /\ \E f \in KindChoices :
        /\ pc = <<"st_request">> \o [t \in 1..NumJobs |-> StartPc(JobKinds[f[t]])]
        /\ job = <<NewJob("stream")>> \o [t \in 1..NumJobs |-> NewJob(JobKinds[f[t]])]
    /\ li = [t \in 1..(NumJobs + 1) |-> 1]
    /\ ci = [t \in 1..(NumJobs + 1) |-> 1]
    /\ attempts = [t \in 1..(NumJobs + 1) |-> <<>>]
    /\ ret = [t \in 1..(NumJobs + 1) |-> NoRet]
    /\ coordLock = 0
    /\ store = [nEntries |-> MaxEntries, nMonths |-> MaxEntries]
    /\ chat \in {NewChat(c, <<"w">>) :
                    c \in {x \in ChatConfs : x.reserve = 0 /\ x.tok.ok /\ x.max_cont = 0 /\ ~x.auto_continue}}
    /\ events = <<>>
    /\ PureIdle

NextLocks ==
    \/ \E t \in StreamThreads : StreamRequest(t)
    \/ \E t \in StreamThreads : StreamBuild(t)
    \/ \E t \in StreamThreads : StreamChunk(t, [len |-> 30, last |-> "term", ws |-> FALSE])
    \/ \E t \in StreamThreads : StreamRaise(t)
    \/ \E t \in StreamThreads : StreamEnd(t)
    \/ \E t \in StreamThreads : StreamLoop(t)
    \/ \E t \in StreamThreads : StreamSave(t)
    \/ \E t \in StreamThreads : StreamError(t)
    \/ \E t \in StreamThreads : StreamErrorDone(t)
    \/ NextJobs

\* Every thread that can take a step is scheduled again, and every call of
\* the engine and of the embedding model returns or raises.
SpecLocks == InitLocks /\ [][NextLocks]_vars /\ WF_vars(NextLocks)

\* ------------------------------------------- hardware profile selection

\* os.environ: a variable is absent (Unset) or holds a string.
Unset == "<unset>"
ProfileSettings == {"LLM_N_CTX", "LLM_RESERVE_TOKENS", "LLM_N_BATCH", "LLM_N_UBATCH"}
EnvNames == ProfileSettings \cup {"LLM_AUTO_HW_PROFILE", "LLM_HW_PROFILE"}

\* str.strip() and str.lower() on the strings of the model.
str_strip(v) == CASE v = " " -> "" [] v = " 8GB " -> "8GB" [] OTHER -> v
str_lower(v) == IF v = "8GB" THEN "8gb" ELSE v

\* str(n) for the numbers of the profiles.
str(n) ==
    CASE n = 32 -> "32" [] n = 64 -> "64" [] n = 128 -> "128" [] n = 256 -> "256"
      [] n = 384 -> "384" [] n = 512 -> "512" [] n = 768 -> "768" [] n = 1024 -> "1024"
      [] n = 3072 -> "3072" [] n = 4096 -> "4096" [] n = 6144 -> "6144" [] n = 8192 -> "8192"

\* _env_bool (lines 65-69).
env_bool(env, name, default) ==
    IF env[name] = Unset \/ env[name] = "" THEN default
    ELSE str_lower(str_strip(env[name])) \in {"1", "true", "yes", "y", "on"}

\* Line 73: the variable is absent or blank.
EnvSettableAlways(env, name) == TRUE
EnvSettable(env, name) == env[name] = Unset \/ str_strip(env[name]) = ""

\* _set_default_env (lines 72-74).
set_default_env(env, name, value) ==
    IF EnvSettable(env, name) THEN [env EXCEPT ![name] = value] ELSE env

\* _apply_profile_settings (lines 77-91); every profile of the file passes
\* n_gpu_layers = None.
apply_profile_settings(env, name, n_ctx, reserve_tokens, n_batch, n_ubatch) ==
    LET e1 == set_default_env(env, "LLM_N_CTX", str(n_ctx))
        e2 == set_default_env(e1, "LLM_RESERVE_TOKENS", str(reserve_tokens))
        e3 == set_default_env(e2, "LLM_N_BATCH", str(n_batch))
        e4 == set_default_env(e3, "LLM_N_UBATCH", str(n_ubatch))
    IN [env |-> e4, name |-> name]

NoProfileApplied(env) == [env |-> env, name |-> "None"]

\* _apply_hw_profile (lines 94-105).
apply_hw_profile(env, profile_name) ==
    LET prof == str_lower(str_strip(profile_name))
    IN IF prof = "" THEN NoProfileApplied(env)
       ELSE IF prof \in {"8gb_16gb", "8gb-16gb", "8gb_vram_16gb_ram", "8gb_vram_16gb",
                         "8gbvram_16gbram", "8gb", "8gb_vram"}
       THEN apply_profile_settings(env, "8GB_16GB", 6144, 768, 256, 128)
       ELSE NoProfileApplied(env)

\* _auto_select_profile (lines 188-225) on the environment and the detected
\* hardware h: system and machine, RAM and VRAM in GB (0: not detected).
auto_select_profile(h) ==
    LET env == h.env
        explicit == IF env["LLM_HW_PROFILE"] = Unset THEN "" ELSE str_strip(env["LLM_HW_PROFILE"])
    IN IF ~env_bool(env, "LLM_AUTO_HW_PROFILE", TRUE) THEN NoProfileApplied(env)
       ELSE IF explicit # "" THEN apply_hw_profile(env, explicit)
       ELSE IF h.system = "darwin-arm64"
       THEN IF h.ram >= 24
            THEN apply_profile_settings(env, "M_SERIES_24GB", 8192, 1024, 128, 64)
            ELSE apply_profile_settings(env, "M_SERIES_16GB", 6144, 768, 128, 64)
       ELSE IF h.vram # 0
       THEN IF h.vram >= 12 THEN apply_profile_settings(env, "GPU_12GB", 8192, 1024, 256, 128)
            ELSE IF h.vram >= 8 THEN apply_profile_settings(env, "GPU_8GB", 6144, 768, 256, 128)
            ELSE IF h.vram >= 6 THEN apply_profile_settings(env, "GPU_6GB", 4096, 512, 128, 64)
            ELSE apply_profile_settings(env, "GPU_LOW", 3072, 384, 64, 32)
       ELSE IF h.ram # 0
       THEN IF h.ram >= 32 THEN apply_profile_settings(env, "RAM_32GB", 6144, 768, 128, 64)
            ELSE IF h.ram >= 16 THEN apply_profile_settings(env, "RAM_16GB", 4096, 512, 128, 64)
            ELSE apply_profile_settings(env, "RAM_8GB", 3072, 384, 64, 32)
       ELSE NoProfileApplied(env)

\* The call of line 415.
SelectProfile ==
    /\ ~envOut.called
    /\ envOut' = [called |-> TRUE, env |-> auto_select_profile(hw).env,
                  name |-> auto_select_profile(hw).name]
    /\ UNCHANGED <<hw, noteIn, noteOut, cIn, cOut, pIn, pOut, loaderVars, trimVars, jobVars, memVars, chatVars>>

\* The environments and machines of the calls. Hardware that the call never
\* detects (the selection is switched off or a profile is named) is one value.
SettingValues == {Unset, "", " ", "2048"}
RamSizes == {0, 8, 16, 24, 32}
VramSizes == {0, 4, 6, 8, 12}
AutoValues == {Unset, "false", "1"}
ExplicitValues == {Unset, " 8GB ", "fast"}
Machine(e, a, x, sy, r, v) ==
    [env |-> [n \in EnvNames |->
                 IF n \in ProfileSettings THEN e[n]
                 ELSE IF n = "LLM_AUTO_HW_PROFILE" THEN a ELSE x],
     system |-> sy, ram |-> r, vram |-> v]

MachineOk(h) ==
    /\ (h.env["LLM_AUTO_HW_PROFILE"] = "false" =>
            h.env["LLM_HW_PROFILE"] = Unset /\ h.system = "linux" /\ h.ram = 0 /\ h.vram = 0)
    /\ (h.env["LLM_HW_PROFILE"] # Unset => h.system = "linux" /\ h.ram = 0 /\ h.vram = 0)
    /\ (h.system = "darwin-arm64" => h.vram = 0)

InitProfile ==
    /\ cfg = DefaultEnv
    /\ InitLoader
    /\ NoThreads
    /\ TrimIdle
    /\ MemIdle
    /\ ChatIdle
    /\ \E e \in [ProfileSettings -> SettingValues], a \in AutoValues, x \in ExplicitValues,
          sy \in {"darwin-arm64", "linux"}, r \in RamSizes, v \in VramSizes :
            /\ MachineOk(Machine(e, a, x, sy, r, v))
            /\ hw = Machine(e, a, x, sy, r, v)
    /\ envOut = NoCall
    /\ noteIn = <<>>
    /\ noteOut = NoCall
    /\ cIn = NoCall
    /\ cOut = NoCall
    /\ pIn = NoCall
    /\ pOut = NoCall

NextProfile == SelectProfile

SpecProfile == InitProfile /\ [][NextProfile]_vars

\* ------------------------------------------------- normalize_note, by line

\* A note is a sequence of lines (the text split at its newlines; the empty
\* text is one blank line). A line is blank (whitespace only), a code fence
\* (it starts with ``` after strip), an ordered-list item (indent, number,
\* dot, whitespace, content), an unordered one (dash, whitespace, content) or
\* other text; src is its position in the note it came from. The text a
\* call returns is the sequence of its lines, the empty text being <<>>.
IsBlankLine(l) == l.kind = "blank"

\* The pattern (?:-|\d+\.)\s+ of line 36.
IsListItem(l) == l.kind \in {"bullet", "ordered"}

\* The lines at the positions K, in order.
KeepLines(lines, K) ==
    [k \in 1..Cardinality(K) |->
        lines[CHOOSE i \in K : Cardinality({j \in K : j <= i}) = k]]

\* The match of the pattern of line 36: a run of blank lines between two
\* list items.
InListGap(lines, i) ==
    /\ IsBlankLine(lines[i])
    /\ \E a \in 1..(i - 1), b \in (i + 1)..Len(lines) :
          /\ IsListItem(lines[a])
          /\ IsListItem(lines[b])
          /\ \A j \in (a + 1)..(b - 1) : IsBlankLine(lines[j])

\* The re.sub of lines 35-40.
NoCollapse(lines) == lines
collapse_list_gaps(lines) == KeepLines(lines, {i \in 1..Len(lines) : ~InListGap(lines, i)})

\* The loop of renumber_ordered_lists (lines 74-90) from line i on.
RECURSIVE RenumberFrom(_, _, _, _, _)
RenumberFrom(lines, i, in_list, current_indent, counter) ==
    IF i > Len(lines) THEN <<>>
    ELSE IF lines[i].kind = "ordered"
    THEN LET c == IF ~in_list \/ lines[i].indent # current_indent THEN 1 ELSE counter
         IN <<[lines[i] EXCEPT !.num = c]>>
                \o RenumberFrom(lines, i + 1, TRUE, lines[i].indent, c + 1)
    ELSE <<lines[i]>> \o RenumberFrom(lines, i + 1, FALSE, 0, 1)

\* renumber_ordered_lists (lines 66-92).
renumber_ordered_lists(lines) == RenumberFrom(lines, 1, FALSE, 0, 1)

\* Line 58 `if not line.strip(): continue`.
SkipsNoLine(l) == FALSE
SkipsLine(l) == IsBlankLine(l)

\* The loop of normalize_note (lines 48-61) from line i on.
RECURSIVE FenceLoop(_, _, _)
FenceLoop(lines, i, in_fence) ==
    IF i > Len(lines) THEN <<>>
    ELSE IF lines[i].kind = "fence" THEN <<lines[i]>> \o FenceLoop(lines, i + 1, ~in_fence)
    ELSE IF in_fence THEN <<lines[i]>> \o FenceLoop(lines, i + 1, in_fence)
    ELSE IF SkipsLine(lines[i]) THEN FenceLoop(lines, i + 1, in_fence)
    ELSE <<lines[i]>> \o FenceLoop(lines, i + 1, in_fence)

\* Line 63 `'\n'.join(output).strip()`: the blank lines at both ends and
\* the indent of the first line go.
join_strip(lines) ==
    LET full == {i \in 1..Len(lines) : ~IsBlankLine(lines[i])}
    IN IF full = {} THEN <<>>
       ELSE LET a == CHOOSE i \in full : \A j \in full : i <= j
                b == CHOOSE i \in full : \A j \in full : j <= i
            IN [SubSeq(lines, a, b) EXCEPT ![1].indent = 0]

\* normalize_note (lines 25-63) on the lines of a note.
normalize_note_lines(lines) ==
    join_strip(FenceLoop(renumber_ordered_lists(collapse_list_gaps(lines)), 1, FALSE))

\* A call of normalize_note (edit_day, line 201).
NormalizeNote ==
    /\ ~noteOut.called
    /\ noteOut' = [called |-> TRUE, lines |-> normalize_note_lines(noteIn)]
    /\ UNCHANGED <<hw, envOut, noteIn, cIn, cOut, pIn, pOut, loaderVars, trimVars, jobVars, memVars, chatVars>>

\* The text a call returned, split into lines again: each line is what it
\* was (a line of the result is never blank outside a fence, and rstrip
\* leaves an item with content an item), at its new position.
SplitAgain(lines) == [i \in DOMAIN lines |-> [lines[i] EXCEPT !.src = i]]

\* The day is opened and saved again as it is: edit_day (line 201) calls
\* normalize_note on the note the first call returned.
NormalizeAgain ==
    /\ noteOut.called
    /\ DOMAIN noteOut = {"called", "lines"}
    /\ noteOut' = [called |-> TRUE, lines |-> noteOut.lines,
                   again |-> normalize_note_lines(SplitAgain(noteOut.lines))]
    /\ UNCHANGED <<hw, envOut, noteIn, cIn, cOut, pIn, pOut, loaderVars, trimVars, jobVars, memVars, chatVars>>

\* The notes of the calls: every sequence of up to MaxLines lines.
ItemNumbers == {2, 5}
ItemIndents == {0, 2}
LineShapes ==
    {[kind |-> k, indent |-> 0, num |-> 0] : k \in {"blank", "text", "bullet", "fence"}}
    \cup {[kind |-> "ordered", indent |-> d, num |-> n] : d \in ItemIndents, n \in ItemNumbers}

\* The note with the lines f: each line knows its position.
NoteText(f) ==
    [i \in DOMAIN f |-> [kind |-> f[i].kind, indent |-> f[i].indent, num |-> f[i].num, src |-> i]]

InitNote ==
    /\ cfg = DefaultEnv
    /\ InitLoader
    /\ NoThreads
    /\ TrimIdle
    /\ MemIdle
    /\ ChatIdle
    /\ hw = NoCall
    /\ envOut = NoCall
    /\ \E n \in 1..MaxLines : \E f \in [1..n -> LineShapes] : noteIn = NoteText(f)
    /\ noteOut = NoCall
    /\ cIn = NoCall
    /\ cOut = NoCall
    /\ pIn = NoCall
    /\ pOut = NoCall

NextNote ==
    \/ NormalizeNote
    \/ NormalizeAgain

SpecNote == InitNote /\ [][NextNote]_vars

\* ------------------------------------------- the continuation messages

\* Lines 297-302: the budget of _build_continuation_messages.
continuation_budget(nCtx, reserve) ==
    LET budget == nCtx - reserve - SafetyMargin
    IN IF budget < BudgetThreshold THEN Max2(MinBudget, nCtx - SafetyMargin) ELSE budget

\* Line 323 `assistant_text = _truncate_to_tokens(llm, assistant_text, target)`.
KeepAssistantText(tok, m, target) == m
CutAssistantText(tok, m, target) == Truncated(tok, m, target)

\* _build_continuation_messages (lines 296-328). The texts are given by their
\* lengths: systemLen the context assembled for the turn (0: empty, and then
\* line 309 takes the base prompt), assistantLen the answer so far, userLen
\* the continue prompt of _get_continue_prompt.
build_continuation_messages(tok, nCtx, reserve, baseLen, systemLen, assistantLen, userLen) ==
    LET budget == continuation_budget(nCtx, reserve)
        user == Msg("user", 3, userLen)
        assistant0 == Msg("assistant", 2, assistantLen)
        \* line 309
        sys0 == IF systemLen = 0 THEN Msg("system", 0, baseLen) ELSE Msg("system", 1, systemLen)
        user_tokens == msg_tokens(tok, user)
        assistant_tokens == msg_tokens(tok, assistant0)
        \* lines 315-317
        sys1 == IF msg_tokens(tok, sys0) + assistant_tokens + user_tokens > budget
                THEN Msg("system", 0, baseLen) ELSE sys0
        sys_tokens == msg_tokens(tok, sys1)
        \* lines 320-322
        assistant1 == IF sys_tokens + assistant_tokens + user_tokens > budget
                      THEN CutAssistantText(tok, assistant0,
                                            Max2(0, budget - sys_tokens - user_tokens - MsgOverhead))
                      ELSE assistant0
    IN <<sys1, assistant1, user>>

\* One call of _build_continuation_messages on the input (line 593).
ApplyCont ==
    /\ ~cOut.called
    /\ cOut' = [called |-> TRUE,
                msgs |-> build_continuation_messages(cIn.tok, cIn.nCtx, cIn.reserve, cIn.baseLen,
                                                     cIn.systemLen, cIn.assistantLen, cIn.userLen)]
    /\ UNCHANGED <<hw, envOut, noteIn, noteOut, cIn, pIn, pOut, loaderVars, trimVars, jobVars, memVars, chatVars>>

\* The lengths the calls are drawn from: an answer so far is at least
\* ContinuationFloor characters long (line 277), the continue prompt is the
\* default of line 291 (60 characters) or a short one set in LLM_CONTINUE_PROMPT.
AssistantLens == {ContinuationFloor, 300, 700, 1500}
ContinuePromptLens == {16, 60}
ContSystemLens == {0} \cup SystemLens

InitCont ==
    /\ cfg = DefaultEnv
    /\ InitLoader
    /\ NoThreads
    /\ TrimIdle
    /\ MemIdle
    /\ ChatIdle
    /\ hw = NoCall
    /\ envOut = NoCall
    /\ noteIn = <<>>
    /\ noteOut = NoCall
    /\ \E k \in Tokenizers, c \in TrimCtxs, r \in TrimReserves, bl \in SystemLens,
          sl \in ContSystemLens, al \in AssistantLens, ul \in ContinuePromptLens :
            /\ sl = 0 \/ bl <= sl
            /\ cIn = [called |-> TRUE, tok |-> k, nCtx |-> c, reserve |-> r, baseLen |-> bl,
                      systemLen |-> sl, assistantLen |-> al, userLen |-> ul]
    /\ cOut = NoCall
    /\ pIn = NoCall
    /\ pOut = NoCall

NextCont == ApplyCont

SpecCont == InitCont /\ [][NextCont]_vars

\* ------------------------------------------- the profile rebuild policy

\* One call of update_profile (background.py lines 85 and 150) on the input.
UpdateProfileCall ==
    /\ ~pOut.called
    /\ pOut' = [called |-> TRUE,
                calls |-> profile_inference_calls(pIn.profile, pIn.total_entries,
                                                  pIn.has_summaries, pIn.force_rebuild),
                profile |-> profile_after(pIn.profile, pIn.total_entries,
                                          pIn.has_summaries, pIn.force_rebuild, pIn.resp)]
    /\ UNCHANGED <<hw, envOut, noteIn, noteOut, cIn, cOut, pIn, loaderVars, trimVars, jobVars, memVars, chatVars>>

\* The stores the calls are drawn from: record counts on both sides of the
\* two thresholds, seen from a profile that analysed 0 (the column default
\* of models.py line 121), 1 or 10 records.
AnalyzedCounts == {0, 1, 10}
RecordCounts ==
    {0, 1, 5, 6, 9, 10, 14, 15, 16}
    \cup {PROFILE_REBUILD_EVERY, PROFILE_REBUILD_EVERY + 1}
    \cup {10 + PROFILE_REBUILD_EVERY - 1, 10 + PROFILE_REBUILD_EVERY}
StoredProfiles ==
    {NoProfile} \cup
    {[exists |-> TRUE, version |-> 1, entries_analyzed |-> a, content |-> "parsed"] : a \in AnalyzedCounts}

InitPolicy ==
    /\ cfg = DefaultEnv
    /\ InitLoader
    /\ NoThreads
    /\ TrimIdle
    /\ MemIdle
    /\ ChatIdle
    /\ hw = NoCall
    /\ envOut = NoCall
    /\ noteIn = <<>>
    /\ noteOut = NoCall
    /\ cIn = NoCall
    /\ cOut = NoCall
    /\ \E p \in StoredProfiles, n \in RecordCounts, h \in BOOLEAN, f \in BOOLEAN, r \in ProfileResponses :
            /\ h => n > 0
            /\ pIn = [called |-> TRUE, profile |-> p, total_entries |-> n,
                      has_summaries |-> h, force_rebuild |-> f, resp |-> r]
    /\ pOut = NoCall

NextPolicy == UpdateProfileCall

SpecPolicy == InitPolicy /\ [][NextPolicy]_vars

\* ================================================================= claims

\* ---- the loader (specification Spec)

\* The positions of lines 409-500: locating the model and the load cascade.
InCascade(t) ==
    pc[t] \in {"glob", "gpu", "gpusetctx", "gpureturn", "reqcheck", "cpu", "cpusetctx", "cpureturn"}

\* C1: at most one thread executes the load cascade at any time, and at most
\* one engine instance is ever constructed.
C1_SingleLoad ==
    /\ Cardinality({t \in Threads : InCascade(t)}) <= 1
    /\ constructed <= 1

\* The documented order of the cascade under configuration c: for each layer
\* value in list order every context size from the largest down, then the
\* CPU-only configuration; the GPU part only with GPU offload supported, the
\* CPU part only without the require-GPU flag.
GpuOrder(c) ==
    LET L == LayerCands(c)
        K == CtxCands(c)
    IN [n \in 1..(Len(L) * Len(K)) |->
            <<L[((n - 1) \div Len(K)) + 1], K[((n - 1) % Len(K)) + 1]>>]

CandidateOrder(c) ==
    (IF c.gpuSupported THEN GpuOrder(c) ELSE <<>>)
    \o (IF c.requireGpu THEN <<>> ELSE <<CpuCand(c)>>)

\* The N of the claim: the first candidate the constructor succeeds on (0: none).
FirstGood(c) ==
    LET idx == {n \in 1..Len(CandidateOrder(c)) : CandidateOrder(c)[n] \in c.good}
    IN IF idx = {} THEN 0 ELSE CHOOSE n \in idx : \A m \in idx : n <= m

\* The thread's own call constructed the engine.
LoadedByOwnCascade(t) ==
    \/ pc[t] \in {"gpusetctx", "gpureturn", "cpusetctx", "cpureturn"}
    \/ pc[t] = "done" /\ ret[t].kind = "ok" /\ attempts[t] # <<>>

\* C2: the constructor attempts of a call are a prefix of the documented
\* order; a call that constructs the engine has made exactly N attempts, N the
\* first candidate that succeeds, and a call that ends in a load error had no
\* candidate that succeeds.
C2_CascadeOrder ==
    \A t \in Threads :
        /\ IsPrefix(attempts[t], CandidateOrder(cfg))
        /\ (LoadedByOwnCascade(t) =>
                /\ FirstGood(cfg) > 0
                /\ attempts[t] = SubSeq(CandidateOrder(cfg), 1, FirstGood(cfg)))
        /\ (~LoadedByOwnCascade(t) /\ FirstGood(cfg) > 0 =>
                Len(attempts[t]) < FirstGood(cfg))
        /\ (pc[t] = "done" /\ ret[t].kind \in {"RuntimeError", "LoadError"} =>
                FirstGood(cfg) = 0 /\ Len(attempts[t]) = Len(CandidateOrder(cfg)))

\* C2 witness: a call returned the engine it constructed on the third
\* candidate, the first context size of the second layer value.
C2_Witness ==
    \E t \in Threads :
        /\ pc[t] = "done"
        /\ ret[t].kind = "ok"
        /\ Len(attempts[t]) = 3
        /\ attempts[t][3] = <<DEFAULT_GPU_LAYER_CANDIDATES[2], DEFAULT_GPU_CTX>>

\* C3: once the handle is stored, no step resets or replaces it.
C3_ReadyTerminal == [][llm # 0 => llm' = llm]_vars

\* ---- the budgeter (specification SpecTrim)

RECURSIVE SumTokens(_, _)
SumTokens(tok, msgs) ==
    IF msgs = <<>> THEN 0
    ELSE count_tokens(tok, msgs[1].len) + MsgOverhead + SumTokens(tok, Tail(msgs))

Budget == trim_budget(tIn.nCtx, tIn.reserve)
InHistory == SubSeq(tIn.msgs, 2, Len(tIn.msgs) - 1)
InNewest == tIn.msgs[Len(tIn.msgs)]
OutHistory == SubSeq(tOut, 2, Len(tOut) - 1)
OutNewest == tOut[Len(tOut)]
IsCut(m) == m.len < m.full

\* C4: the returned list's total token cost, each message counted with the
\* per-message overhead, is at most the budget B.
C4_FitsBudget ==
    tDone => SumTokens(tIn.tok, tOut) <= Budget

\* C4 witness: the newest message had to be cut and history was dropped.
C4_Witness ==
    /\ tDone
    /\ IsCut(OutNewest)
    /\ Len(InHistory) = MaxHistory
    /\ SumTokens(tIn.tok, tOut) = Budget

\* C5 as claimed: only the newest message is ever cut; the system message is
\* the assembled context or the base prompt in full.
C5_OnlyNewestCut ==
    tDone => \A k \in 1..(Len(tOut) - 1) : ~IsCut(tOut[k])

\* C5 amended: history messages are whole; the system message is the
\* assembled context in full or the base prompt, and the base prompt is cut
\* only when base prompt plus uncut newest message exceed the budget, to at
\* most the tokens the newest message leaves.
C5_CutPoints ==
    tDone =>
        /\ \A k \in 1..Len(OutHistory) : ~IsCut(OutHistory[k])
        /\ \/ tOut[1] = tIn.msgs[1]
           \/ tOut[1] = Msg("system", 0, tIn.baseLen)
           \/ /\ tOut[1].id = 0
              /\ tOut[1].full = tIn.baseLen
              /\ IsCut(tOut[1])
              /\ count_tokens(tIn.tok, tIn.baseLen) + MsgOverhead
                    + msg_tokens(tIn.tok, InNewest) > Budget
              /\ tOut[1].len = truncate_to_tokens(tIn.tok, tIn.baseLen,
                    Max2(0, Budget - msg_tokens(tIn.tok, InNewest) - MsgOverhead))

\* C5 witness: the base prompt was cut while the newest message is whole.
C5_Witness ==
    /\ tDone
    /\ tOut[1].id = 0
    /\ IsCut(tOut[1])
    /\ tOut[1].len > 0
    /\ ~IsCut(OutNewest)

\* C6: the kept history is the contiguous run of the most recent history
\* messages, and the first message left out costs more than the budget that
\* remained when it was reached.
C6_GreedySuffix ==
    tDone =>
        LET n == Len(InHistory)
            k == Len(OutHistory)
        IN /\ k <= n
           /\ OutHistory = SubSeq(InHistory, n - k + 1, n)
           /\ (k < n =>
                 count_tokens(tIn.tok, InHistory[n - k].len) + MsgOverhead
                    > Budget - SumTokens(tIn.tok, tOut))

\* C6 witness: some but not all history was kept.
C6_Witness ==
    /\ tDone
    /\ Len(OutHistory) >= 1
    /\ Len(OutHistory) < Len(InHistory)

\* C7: system message first, newest message last, the kept history between
\* them in its original order.
C7_Order ==
    tDone =>
        /\ Len(tOut) >= 2
        /\ tOut[1].role = "system"
        /\ tOut[1].id \in {0, 1}
        /\ OutNewest.id = InNewest.id
        /\ \A k \in 2..(Len(tOut) - 1) : tOut[k].id < tOut[k + 1].id
        /\ \A k \in 2..Len(tOut) : tOut[k].id >= 2

\* C7 witness: two history messages were kept.
C7_Witness ==
    /\ tDone
    /\ Len(tOut) = 4
    /\ tOut[2].id = 2
    /\ tOut[3].id = 3

\* ---- the background jobs (specification SpecJobs)

\* A job is doing its work: it is past its lock acquisition (or, for the
\* warmup, past its start) and has not ended.
JobWorking(t) ==
    /\ job[t].kind \in {"process_entry", "reindex_all", "warmup"}
    /\ pc[t] \notin {"pe_acquire", "ri_acquire", "wu_start", "done"}

C9_LockReleased ==
    \A t \in Threads :
        job[t].kind \in LockJobs /\ pc[t] = "done" =>
            /\ coordLock # t
            /\ job[t].released = (IF job[t].held THEN 1 ELSE 0)

\* C9 witness: a per-record job ended by an early return (it ran no step),
\* another job ended without the lock, and the lock is free.
C9_Witness ==
    \E a, b \in Threads :
        /\ job[a].kind = "process_entry" /\ pc[a] = "done"
        /\ job[a].held /\ ~job[a].wrote /\ job[a].released = 1
        /\ pc[b] = "done" /\ job[b].skipped
        /\ coordLock = 0

\* C10: a job whose acquisition timeout has passed with the lock still held
\* ends at its next step; and a job that gave up has ended, has never held or
\* released the lock, and has run no step that writes or calls an engine.
C10_SkipsWhenBusy ==
    [][\A t \in Threads :
        /\ (/\ pc[t] \in AcquireSites
            /\ job[t].waited = LOCK_TIMEOUT
            /\ coordLock # 0
            /\ pc'[t] # pc[t])
           => (pc'[t] = "done" /\ job'[t].skipped)
        /\ job'[t].skipped =>
            /\ pc'[t] = "done"
            /\ ~job'[t].held
            /\ job'[t].released = 0
            /\ ~job'[t].wrote
            /\ ~job'[t].engine
            /\ attempts'[t] = <<>>
            /\ coordLock' # t]_vars

\* C10 witness: job b gave up while job a, which holds the lock, is still
\* in the middle of its work.
C10_Witness ==
    \E a, b \in Threads :
        /\ a # b
        /\ job[b].skipped /\ pc[b] = "done"
        /\ coordLock = a
        /\ JobWorking(a)
        /\ job[a].wrote

\* ---- the memory store (specification SpecMem)

\* The content update_embedding is called with in this step, and the content
\* its previous call for the same record was given (NoEntry: no such call).
EmbedCall == StepEmbed /\ View(run.idx).ok
EmbedNow ==
    [date |-> View(run.idx).rec.date, rating |-> View(run.idx).rec.rating,
     note |-> View(run.idx).rec.note]
EmbedBefore == obs.seen[View(run.idx).rec.id]
EmbedRowsAfter == {x \in embRows' : x.entry_id = View(run.idx).rec.id}

\* C12 as claimed: a call of update_embedding for a record whose date, rating
\* and note are as at the previous call computes no embedding and writes
\* nothing; a call after the note text changed computes one embedding and
\* writes once, and the record has exactly one embedding row.
C12_ReembedOnNoteChange ==
    [][EmbedCall =>
        /\ (EmbedBefore = EmbedNow => ~obs'.computed /\ ~obs'.wrote /\ embRows' = embRows)
        /\ (EmbedBefore # NoEntry /\ EmbedBefore.note # EmbedNow.note =>
                obs'.computed /\ obs'.wrote /\ Cardinality(EmbedRowsAfter) = 1)]_vars

\* C12: a call of update_embedding for a record whose date, rating and note
\* without its leading and trailing whitespace are as at the previous call
\* computes no embedding and writes nothing; a call after one of them changed
\* computes one embedding and writes once, and the record has exactly one
\* embedding row.
C12_ReembedOnTextChange ==
    [][EmbedCall =>
        /\ (EmbeddingText(EmbedBefore) = EmbeddingText(EmbedNow) =>
                ~obs'.computed /\ ~obs'.wrote /\ embRows' = embRows)
        /\ (EmbedBefore # NoEntry /\ EmbeddingText(EmbedBefore) # EmbeddingText(EmbedNow) =>
                obs'.computed /\ obs'.wrote /\ Cardinality(EmbedRowsAfter) = 1)]_vars

\* A second job has called update_embedding for a record whose content was
\* as at the call before, and the call computed and wrote nothing.
C12_Witness ==
    /\ nRuns = 2
    /\ run.phase = "summary"
    /\ ~obs.computed
    /\ ~obs.wrote
    /\ \E e \in LiveIds :
        /\ obs.seen[e] = entries[e]
        /\ \E x \in embRows : x.entry_id = e

\* C13: a call of update_profile in which the engine's answer holds no JSON
\* document leaves the stored profile as it was.
C13_ParseFailureKeepsProfile ==
    [][StepProfile("garbage") => profile' = profile]_vars

\* C14: the entries_analyzed counter of a stored profile never decreases.
C14_AnalyzedMonotone ==
    [][profile.exists /\ profile'.exists =>
            profile'.entries_analyzed >= profile.entries_analyzed]_vars

\* C15: every embedding row and every summary row references an existing
\* record.
C15_NoOrphans ==
    /\ \A x \in embRows : x.entry_id \in LiveIds
    /\ \A x \in sumRows : x.entry_id \in LiveIds

\* The month generate_month_summary is called for in this step.
MonthCall ==
    /\ \E i \in BOOLEAN : StepMonth(i)
    /\ run.kind = "process_entry" => View(1).ok
MonthArg ==
    IF run.kind = "process_entry" THEN MonthOf(View(1).rec.date) ELSE run.months[run.idx]

\* C16: after a call of generate_month_summary for a month, the stored
\* summary of the month, if there is one, has entry_count equal to the number
\* of live records of the month.
C16_CountIsLive ==
    [][MonthCall =>
        (periods'[MonthArg].exists =>
            periods'[MonthArg].entry_count = Cardinality(LiveIn(MonthArg)))]_vars

\* ---- the chat request (specifications SpecChat, SpecChatFair, SpecBusy)

\* The turn of the request has ended and its stream is closed.
StreamClosed == \A t \in StreamThreads : pc[t] = "done"
LastEvent == IF events = <<>> THEN "none" ELSE events[Len(events)]

\* C11: a request to /stream never acquires, releases or waits for the
\* coordinator lock, and with the engine Ready its turn reaches the final
\* sentinel however long a maintenance job holds the lock.
C11_StreamIgnoresCoordinator ==
    /\ [](\A t \in StreamThreads : coordLock # t /\ pc[t] \notin AcquireSites)
    /\ [][\A t \in StreamThreads : pc'[t] # pc[t] => coordLock' = coordLock]_vars
    /\ <>(StreamClosed /\ LastEvent = "done")

\* The turn has ended with its sentinel, without an error, while the job
\* holds the coordinator lock.
C11_Witness ==
    /\ StreamClosed
    /\ LastEvent = "done"
    /\ ~chat.failed
    /\ \E j \in Threads \ StreamThreads : coordLock = j /\ pc[j] # "done"

\* The text looks cut off: longer than the character floor, no terminal
\* punctuation at its end, token count within the slack of the reserve.
LooksCutOff(conf, text) ==
    /\ text.len > ContinuationFloor
    /\ text.last = "other"
    /\ count_tokens(conf.tok, text.len) >= conf.reserve - ReserveSlack

\* C17: under the default configuration a turn whose first generation looks
\* cut off makes exactly one continuation call.
C17_DefaultContinuesOnce ==
    (StreamClosed /\ chat.msg = "normal" /\ ~chat.failed
        /\ DefaultConf(chat.conf) /\ LooksCutOff(chat.conf, chat.first))
    => chat.cont_count = 1

\* C18: a response that ends, trailing whitespace aside, in terminal
\* punctuation never leads to a continuation call.
C18_TerminalNeverContinues ==
    [][\A t \in StreamThreads :
        (StreamLoop(t) /\ chat.full.last = "term") => chat'.cont_count = chat.cont_count]_vars

\* A long response that ends in terminal punctuation and whitespace has
\* passed the while condition, with auto-continue on and continuations left,
\* without a continuation call.
C18_Witness ==
    /\ \E t \in StreamThreads : pc[t] = "st_save"
    /\ chat.conf.auto_continue
    /\ chat.conf.max_cont > 0
    /\ chat.cont_count = 0
    /\ chat.conf.reserve = DEFAULT_RESERVE_TOKENS
    /\ chat.full.last = "term"
    /\ chat.full.ws
    /\ count_tokens(chat.conf.tok, chat.full.len) >= DEFAULT_RESERVE_TOKENS

\* C19: the continuation calls of a turn never exceed LLM_MAX_CONTINUATIONS,
\* none is made after a continuation that produced no token, and the turn
\* ends.
C19_BoundedContinuation ==
    /\ [](chat.cont_count <= chat.conf.max_cont)
    /\ [][chat.emptyCont => chat'.cont_count = chat.cont_count]_vars
    /\ <>StreamClosed

\* The turn has ended after a continuation that produced no token, with
\* continuations left and a text that still asks for one.
C19_Witness ==
    /\ StreamClosed
    /\ chat.emptyCont
    /\ chat.cont_count >= 1
    /\ chat.cont_count < chat.conf.max_cont
    /\ needs_continuation(chat.conf.tok, chat.conf.reserve, chat.full)

\* The turn met a load error or an engine error.
StreamFailed == chat.failed \/ \E t \in StreamThreads : ret[t].kind \notin {"none", "ok"}

\* C20: the sentinel is sent once and nothing follows it; a closed stream
\* ends with it; an error is reported by one error event, which the sentinel
\* follows at once; every load or engine error is reported.
C20_SentinelLast ==
    /\ \A i \in 1..Len(events) : events[i] = "done" => i = Len(events)
    /\ StreamClosed => LastEvent = "done"
    /\ Cardinality({i \in 1..Len(events) : events[i] = "error"}) <= 1
    /\ \A i \in 1..Len(events) :
            events[i] = "error" =>
                \/ i = Len(events) /\ ~StreamClosed
                \/ i = Len(events) - 1 /\ LastEvent = "done"
    /\ StreamClosed => (StreamFailed <=> \E i \in 1..Len(events) : events[i] = "error")

\* The engine failed in the middle of streaming: tokens, one error event,
\* the sentinel.
C20_Witness ==
    /\ StreamClosed
    /\ chat.failed
    /\ Len(events) >= 3
    /\ events[1] = "token"
    /\ events[Len(events) - 1] = "error"
    /\ LastEvent = "done"

\* ---- semantic retrieval (specification SpecSearch)

\* The stored vectors that belong to a record, and the score of a row
\* against the query of the call.
StoredOfRecords == {x \in embRows : x.entry_id \in LiveIds}
ScoreOf(x) == dot(embed_query(found.query), x.embedding)
RowOf(e) == CHOOSE x \in embRows : x.entry_id = e

\* C21: a retrieval call with top_k = K returns the K records whose stored
\* vectors score highest against the query (all of them when fewer than K
\* are stored), without repetition and in descending order of score.
C21_TopK ==
    found.called =>
        LET res == found.result
            n == Len(res)
        IN /\ n = Min2(found.top_k, Cardinality(StoredOfRecords))
           /\ \A i, j \in 1..n : i < j => res[i] # res[j]
           /\ \A i \in 1..n : res[i] \in {x.entry_id : x \in StoredOfRecords}
           /\ \A i, j \in 1..n : i < j => ScoreOf(RowOf(res[i])) >= ScoreOf(RowOf(res[j]))
           /\ \A x \in StoredOfRecords :
                 x.entry_id \notin {res[i] : i \in 1..n} =>
                     \A i \in 1..n : ScoreOf(x) <= ScoreOf(RowOf(res[i]))

\* C22: of two stored vectors with equal score the one earlier in storage
\* order is ranked first: the later one is returned only after the earlier.
C22_TiesByStorageOrder ==
    found.called =>
        LET res == found.result
            Pos(e) == CHOOSE i \in 1..Len(res) : res[i] = e
            Returned == {res[i] : i \in 1..Len(res)}
        IN \A a, b \in StoredOfRecords :
              a.id < b.id /\ ScoreOf(a) = ScoreOf(b) /\ b.entry_id \in Returned =>
                  a.entry_id \in Returned /\ Pos(a.entry_id) < Pos(b.entry_id)

\* ---- the loader, continued (specification Spec)

\* No accelerator candidate of the configuration succeeds, or the build has
\* no accelerator support.
NoAcceleratorLoads(c) == ~c.gpuSupported \/ c.good \cap GpuCandsOf(c) = {}

\* The CPU-only attempts (zero offloaded layers) of a call.
CpuOnlyAttempts(t) == {i \in 1..Len(attempts[t]) : attempts[t][i][1] = 0}

\* The call of thread t has run its load to the end.
LoadEnded(t) ==
    /\ pc[t] = "done"
    /\ \/ ret[t].kind \in {"RuntimeError", "LoadError"}
       \/ ret[t].kind = "ok" /\ attempts[t] # <<>>

\* C23: a load in which no accelerator candidate succeeds makes, without the
\* require-accelerator flag, exactly one CPU-only attempt, at the CPU context
\* size, and if that attempt succeeds the manager is Ready (the handle is set
\* and returned, the context size is the CPU one); with the flag it makes no
\* CPU-only attempt and ends in an error with the handle empty.
C23_CpuFallback ==
    \A t \in Threads :
        LoadEnded(t) /\ NoAcceleratorLoads(cfg) =>
            IF cfg.requireGpu
            THEN /\ CpuOnlyAttempts(t) = {}
                 /\ ret[t].kind = "RuntimeError"
                 /\ llm = 0
            ELSE /\ CpuOnlyAttempts(t) = {Len(attempts[t])}
                 /\ attempts[t][Len(attempts[t])] = <<0, cfg.cpuCtx>>
                 /\ (ConstructOk(cfg, CpuCand(cfg)) =>
                        /\ ret[t].kind = "ok" /\ ret[t].val # 0
                        /\ llm # 0
                        /\ llmNCtx = cfg.cpuCtx)

\* C24: the model is located only when the model directory holds exactly one
\* artifact: with none, and with two or more, the call makes no constructor
\* attempt and ends with the no-model-found error.
C24_ExactlyOneArtifact ==
    \A t \in Threads :
        cfg.nFiles # 1 =>
            /\ attempts[t] = <<>>
            /\ pc[t] = "done" => ret[t].kind = "FileNotFoundError"

\* ---- hardware profile selection (specification SpecProfile)

\* The values of a profile, by the name _auto_select_profile returns.
ProfileValue(name, setting) ==
    LET ctx == CASE name \in {"M_SERIES_24GB", "GPU_12GB"} -> 8192
                 [] name \in {"M_SERIES_16GB", "GPU_8GB", "RAM_32GB", "8GB_16GB"} -> 6144
                 [] name \in {"GPU_6GB", "RAM_16GB"} -> 4096
                 [] OTHER -> 3072
        big == name \in {"GPU_12GB", "GPU_8GB", "8GB_16GB"}
        low == name \in {"GPU_LOW", "RAM_8GB"}
    IN CASE setting = "LLM_N_CTX" -> str(ctx)
         [] setting = "LLM_RESERVE_TOKENS" -> str(ctx \div 8)
         [] setting = "LLM_N_BATCH" -> IF big THEN "256" ELSE IF low THEN "64" ELSE "128"
         [] setting = "LLM_N_UBATCH" -> IF big THEN "128" ELSE IF low THEN "32" ELSE "64"

IsBlank(v) == v \in {Unset, "", " "}

\* C25: profile selection leaves every setting that had a non-blank value as
\* it was, and a setting that was unset or blank is either left as it was (no
\* profile applied) or holds the value of the profile that was applied.
C25_ProfileKeepsExplicit ==
    envOut.called =>
        \A n \in ProfileSettings :
            /\ ~IsBlank(hw.env[n]) => envOut.env[n] = hw.env[n]
            /\ IsBlank(hw.env[n]) =>
                  IF envOut.name = "None" THEN envOut.env[n] = hw.env[n]
                  ELSE envOut.env[n] = ProfileValue(envOut.name, n)

\* C25 witness: a detected profile was applied to an environment in which
\* the context size was set, the reserve was blank and the batch size was
\* unset: the first is kept, the other two hold the profile's values.
C25_Witness ==
    /\ envOut.called
    /\ envOut.name = "GPU_12GB"
    /\ hw.env["LLM_N_CTX"] = "2048" /\ envOut.env["LLM_N_CTX"] = "2048"
    /\ hw.env["LLM_RESERVE_TOKENS"] = " " /\ envOut.env["LLM_RESERVE_TOKENS"] = "1024"
    /\ hw.env["LLM_N_BATCH"] = Unset /\ envOut.env["LLM_N_BATCH"] = "256"

\* ---- the background jobs, continued (specification SpecJobs)

\* C26: a per-record or reindex job that holds the lock goes to its end (the
\* finally that releases the lock) only from its last step, the profile
\* update, or from the lookup of its records: no failure of a step or of
\* obtaining the engine takes it there past the steps that remain.
C26_FailureNeverAborts ==
    [][\A t \in Threads :
          job[t].kind \in LockJobs /\ pc[t] # "release" /\ pc'[t] = "release" =>
              pc[t] \in {"pe_lookup", "ri_query", "pe_profile", "ri_profile"}]_vars

\* ---- the memory store, continued (specification SpecMem)

\* C27: every stored item summary is valid by the store's own validity
\* check, so that a repeated generate_entry_summary call for its record
\* returns the stored row without an inference call or a write.
C27_StoredSummaryValid == \A x \in sumRows : ~x.invalid

\* ---- normalize_note (specification SpecNote)

\* The last non-blank line before line i of the note (0: none).
PrevLine(lines, i) ==
    LET P == {j \in 1..(i - 1) : ~IsBlankLine(lines[j])}
    IN IF P = {} THEN 0 ELSE CHOOSE j \in P : \A k \in P : k <= j

\* The number the ordered-list item at line i has within its block: a block
\* is a run of items of one indent with nothing but blank lines between them.
RECURSIVE BlockNumber(_, _)
BlockNumber(lines, i) ==
    LET p == PrevLine(lines, i)
    IN IF p # 0 /\ lines[p].kind = "ordered" /\ lines[p].indent = lines[i].indent
       THEN BlockNumber(lines, p) + 1
       ELSE 1

OutsideFences(lines, i) ==
    /\ lines[i].kind # "fence"
    /\ Cardinality({j \in 1..(i - 1) : lines[j].kind = "fence"}) % 2 = 0

\* The lines of a text at the positions K, as the lines of the note they
\* came from.
Origins(lines, K) ==
    LET kept == KeepLines(lines, K)
    IN [k \in 1..Len(kept) |-> <<kept[k].src, kept[k].kind>>]

FencedLines(lines) ==
    LET K == {i \in 1..Len(lines) :
                /\ lines[i].kind # "fence"
                /\ ~OutsideFences(lines, i)
                /\ \E j \in (i + 1)..Len(lines) : lines[j].kind = "fence"}
        kept == KeepLines(lines, K)
    IN [k \in 1..Len(kept) |-> <<kept[k].kind, kept[k].indent, kept[k].num>>]

\* C30: the lines between an opening and a closing code fence come back as
\* they were, blank lines included, whatever they contain.
C30_FencedLinesKept ==
    noteOut.called => FencedLines(noteOut.lines) = FencedLines(noteIn)

\* ---- the budget (specifications SpecTrim and SpecCont)

\* C31: the budget of the budgeter and of the continuation builder is
\* B = max(m, contextSize - reserveTokens - safetyMargin) for the fixed
\* minimum m, so B + reserveTokens + safetyMargin exceeds contextSize only
\* when B is that minimum.
C31_BudgetFormula ==
    tDone =>
        LET B == trim_budget(tIn.nCtx, tIn.reserve)
            Bc == continuation_budget(tIn.nCtx, tIn.reserve)
            floored == Max2(MinBudget, tIn.nCtx - tIn.reserve - SafetyMargin)
        IN /\ B = floored
           /\ Bc = floored
           /\ B + tIn.reserve + SafetyMargin <= tIn.nCtx \/ B = MinBudget

\* ---- the profile rebuild policy (specification SpecPolicy)

\* The condition of C32 on the store a call of update_profile finds.
ProfileDue ==
    LET p == pIn.profile
        accrued == pIn.total_entries - p.entries_analyzed
    IN /\ \/ pIn.force_rebuild
          \/ ~p.exists
          \/ p.entries_analyzed = 0
          \/ accrued >= 50
          \/ accrued >= 5
       /\ pIn.total_entries >= 1
       /\ pIn.has_summaries

\* C32: update_profile makes exactly one inference call when it is forced,
\* or no profile exists, or entries_analyzed is 0, or at least 50 or at least
\* 5 records have accrued, and a record and an item summary exist; in every
\* other case it makes none and leaves the profile as it is.
C32_ProfilePolicy ==
    pOut.called =>
        IF ProfileDue THEN pOut.calls = 1
        ELSE pOut.calls = 0 /\ pOut.profile = pIn.profile

\* C32 witness: an incremental update exactly at the threshold of 5 records,
\* written as version 2.
C32_Witness ==
    /\ pOut.called
    /\ pIn.profile.exists /\ pIn.profile.entries_analyzed = 10
    /\ pIn.total_entries = 15
    /\ ~pIn.force_rebuild
    /\ pOut.calls = 1
    /\ pOut.profile.version = 2 /\ pOut.profile.entries_analyzed = 15

\* ---- the request's log (specification SpecChat)

\* The positions of the log with an entry of the given kind, and how many
\* of them lie before position i.
LogAt(kind) == {i \in 1..Len(chat.log) : chat.log[i].kind = kind}
LogBefore(kind, i) == Cardinality({j \in LogAt(kind) : j < i})

\* C33: the k-th continuation call comes right after one continuation event
\* with count k, the counts run 1, 2, ..., an event stands only between two
\* generation calls, after the tokens of the one and before those of the
\* other, and a stream without continuation has none.
C33_MarkerBeforeEachContinuation ==
    /\ \A i \in LogAt("call") :
            LET k == LogBefore("call", i)
            IN k >= 1 =>
                /\ chat.log[i - 1].kind = "marker"
                /\ chat.log[i - 1].n = k
                /\ LogBefore("marker", i) = k
    /\ \A i \in LogAt("marker") :
            /\ LogBefore("call", i) >= 1
            /\ i < Len(chat.log) /\ chat.log[i + 1].kind = "call"
            /\ chat.log[i].n = LogBefore("marker", i) + 1
    /\ Cardinality(LogAt("call")) <= 1 => LogAt("marker") = {}
    /\ Cardinality(LogAt("marker")) = chat.cont_count

\* C33 witness: a closed stream with two continuations, tokens before,
\* between and after the two events.
C33_Witness ==
    /\ events = <<"token", "continuation", "token", "continuation", "token", "done">>
    /\ [i \in 1..Len(chat.log) |-> chat.log[i].kind] =
            <<"context", "call", "token", "marker", "call", "token", "marker", "call", "token">>
    /\ chat.log[4].n = 1 /\ chat.log[7].n = 2

\* ---- the continuation messages (specification SpecCont)

ContBudget == continuation_budget(cIn.nCtx, cIn.reserve)
ContBase == Msg("system", 0, cIn.baseLen)
ContAssembled == IF cIn.systemLen = 0 THEN ContBase ELSE Msg("system", 1, cIn.systemLen)
ContUser == Msg("user", 3, cIn.userLen)
ContAnswer == Msg("assistant", 2, cIn.assistantLen)
ContCost(msgs) == SumTokens(cIn.tok, msgs)

\* C34: a continuation call gets three messages, system, assistant (the
\* answer so far, possibly cut), user (the continue instruction); the system
\* message is the base prompt when the three would exceed the budget; and
\* when base prompt and continue instruction fit, the three cost at most B.
C34_ContinuationFits ==
    cOut.called =>
        LET out == cOut.msgs
        IN /\ Len(out) = 3
           /\ out[1].role = "system" /\ out[2].role = "assistant" /\ out[3].role = "user"
           /\ out[3] = ContUser
           /\ out[2].id = 2 /\ out[2].full = cIn.assistantLen /\ out[2].len <= cIn.assistantLen
           /\ out[1] = IF ContCost(<<ContAssembled, ContAnswer, ContUser>>) > ContBudget
                       THEN ContBase ELSE ContAssembled
           /\ ContCost(<<ContBase, ContUser>>) <= ContBudget => ContCost(out) <= ContBudget

\* ---- the loading flag and failed loads (specification Spec)

\* status() (lines 688-704): the field llm_loading of the answer.
status_llm_loading == llmLoading

\* C35: the loading flag the status endpoint reports is true only while some
\* thread is locating the model or running the load cascade; once every
\* load has ended, however it ended, the flag is false.
C35_LoadingOnlyWhileLoading ==
    status_llm_loading => \E t \in Threads : InCascade(t)

\* ---- failed loads and the next call (specification SpecRetry)

LoadFailures == {"FileNotFoundError", "RuntimeError", "LoadError"}

\* C36: a load that fails leaves the handle empty and nothing of the failure
\* behind: a call fails only when its own cascade, run from the first
\* candidate to the last, found the cause present, and a call that returns
\* the engine returns a handle that is set, constructed by its own cascade
\* from the first candidate on unless it was there already.
C36_FailureNotStored ==
    [][\A t \in Threads :
          /\ (ret[t].kind = "none" /\ ret'[t].kind \in LoadFailures =>
                /\ llm' = 0 /\ llmNCtx' = 0
                /\ ret'[t].kind = "FileNotFoundError" => cfg.nFiles = 0 /\ attempts'[t] = <<>>
                /\ ret'[t].kind # "FileNotFoundError" =>
                        /\ cfg.nFiles > 0
                        /\ FirstGood(cfg) = 0
                        /\ attempts'[t] = CandidateOrder(cfg))
          /\ (ret[t].kind = "none" /\ ret'[t].kind = "ok" =>
                /\ ret'[t].val # 0 /\ ret'[t].val = llm'
                /\ \/ llm # 0 /\ attempts'[t] = <<>>
                   \/ /\ FirstGood(cfg) > 0
                      /\ attempts'[t] = SubSeq(CandidateOrder(cfg), 1, FirstGood(cfg)))
    ]_vars

\* C36 witness: the first call found no model file; a file was added, and the
\* next call went through two failing candidates to the third and is Ready.
C36_Witness ==
    /\ pc = <<"done", "done">>
    /\ ret[1].kind = "FileNotFoundError"
    /\ status_llm_loading = FALSE
    /\ ret[2].kind = "ok" /\ ret[2].val = llm /\ llm # 0
    /\ Len(attempts[2]) = 3
    /\ attempts[2] = SubSeq(CandidateOrder(cfg), 1, 3)

\* ---- the persisted turns (specification SpecChat)

AssistantTurns == {i \in 1..Len(chat.turns) : chat.turns[i].role = "assistant"}
ErrorSent == \E i \in 1..Len(events) : events[i] = "error"

\* C37: a request persists at most one assistant turn, only when its stream
\* ends without error and with output, and the turn's content is the token
\* events of the stream concatenated in order; a request that fails, also
\* after tokens were sent, keeps its user turn and stores no assistant turn.
C37_AssistantTurnIsTheStream ==
    /\ Cardinality(AssistantTurns) <= 1
    /\ \A i \in AssistantTurns :
            /\ StreamClosed /\ ~ErrorSent /\ ~chat.failed
            /\ chat.turns[i].content.len > 0
            /\ chat.turns[i].content = chat.sent
            /\ i = 2 /\ chat.turns[1] = UserTurn(chat.text)
    /\ (StreamClosed /\ ~ErrorSent /\ chat.sent.len > 0) => AssistantTurns # {}
    /\ (chat.failed \/ ErrorSent) => chat.turns = <<UserTurn(chat.text)>>

\* C37 witness: a first generation and a continuation, both with tokens, saved
\* as one turn.
C37_Witness ==
    /\ events = <<"token", "continuation", "token", "done">>
    /\ AssistantTurns = {2}
    /\ chat.turns[2].content.len = 4200
    /\ chat.first.len = 2100

\* C37, the failing request: the error came after a token was sent.
C37_WitnessError ==
    /\ events = <<"token", "error", "done">>
    /\ chat.turns = <<UserTurn(chat.text)>>

\* ---- the crisis answer (specification SpecChat)

\* The message has a crisis keyword among its words, in whatever case.
HasCrisisKeyword == \E i \in 1..Len(chat.text) : chat.text[i] \in {"kw", "KW"}

\* C38: a message with a crisis keyword never reaches the engine: its
\* request does not enter _get_llm, assembles no context and makes no
\* generation call; the fixed answer is stored as the assistant turn and
\* sent as one token event, which the sentinel follows.
C38_CrisisBypassesEngine ==
    HasCrisisKeyword =>
        /\ \A t \in StreamThreads :
                /\ pc[t] \in {"st_request", "done"}
                /\ attempts[t] = <<>>
                /\ ret[t] = NoRet
        /\ constructed = 0 /\ llm = 0 /\ ~llmLoading
        /\ LogAt("context") = {} /\ LogAt("call") = {}
        /\ StreamClosed =>
                /\ events = <<"token", "done">>
                /\ chat.log = <<LogEntry("token", 0)>> /\ chat.sent = CRISIS_RESPONSE
                /\ chat.turns = <<UserTurn(chat.text), AssistantTurn(CRISIS_RESPONSE)>>

\* C38 witness: the keyword in capitals after another word, answered.
C38_Witness ==
    /\ chat.text = <<"w", "KW">>
    /\ StreamClosed
    /\ events = <<"token", "done">>
    /\ chat.turns[2] = AssistantTurn(CRISIS_RESPONSE)

\* ---- normalize_note applied twice (specification SpecNote)

\* The text of a note: its lines without their positions.
TextOf(lines) ==
    [i \in DOMAIN lines |-> [kind |-> lines[i].kind, indent |-> lines[i].indent, num |-> lines[i].num]]

\* C39: normalize_note is idempotent: applied to its own result it returns
\* that result.
C39_Idempotent ==
    (noteOut.called /\ "again" \in DOMAIN noteOut) =>
        TextOf(noteOut.again) = TextOf(noteOut.lines)

\* ---- the two locks (specification SpecLocks)

AllEnded == \A t \in Threads : pc[t] = "done"

\* C40: the coordinator lock and the engine-initialization lock do not
\* deadlock: _llm_lock is held only inside the with block of _get_llm, so no
\* thread waits for the coordinator lock while holding it, and with every
\* thread scheduled again and again and every engine and embedding call
\* returning, every job and every stream ends and both locks are free.
C40_NoLockDeadlock ==
    /\ [](\A t \in Threads :
            llmLock = t => pc[t] = "locked" /\ pc[t] \notin AcquireSites)
    /\ <>[](AllEnded /\ coordLock = 0 /\ llmLock = 0)

\* C40 witness: a job holds the coordinator lock and waits for the engine
\* lock, which the request thread holds, while the other job waits for the
\* coordinator lock.
C40_Witness ==
    /\ pc[1] = "locked" /\ llmLock = 1
    /\ \E t \in Threads \ {1} : coordLock = t /\ pc[t] = "lock"
    /\ \E u \in Threads \ {1} : pc[u] \in AcquireSites /\ coordLock # u /\ job[u].waited = LOCK_TIMEOUT

====
